---- MODULE Spec2Model ----
(***************************************************************************)
(* Networking core of the peer-to-peer chat: UDP peer discovery            *)
(* (PeerDiscovery), the WebSocket transport (WebSocketServer on the        *)
(* accepting side, MainWindow.websocket_clients on the initiating side)    *)
(* and the chunked file transfer (FileTransfer.run on the sending side,    *)
(* handle_file_chunk / complete_file_transfer on the receiving side).      *)
(*                                                                         *)
(* Thirteen specifications share the variables:                            *)
(*   SpecTransfer   one FileTransfer worker, the GUI thread that pauses,   *)
(*                  resumes and cancels it, and the receiving server fed   *)
(*                  by the worker's connection;                            *)
(*   SpecRecv       the receiving server fed with file_chunk frames of     *)
(*                  one transfer id in any order, repeated, with chunk     *)
(*                  indices and total_chunks values a peer may send;       *)
(*   SpecDiscovery  the discovery listener fed with datagrams;             *)
(*   SpecSend       MainWindow's outbound sessions and the threads that    *)
(*                  send_message_to_peer starts;                           *)
(*   SpecServer     the accepting side's read loop, handle_client;         *)
(*   SpecClient     the initiating side's connect threads and their read   *)
(*                  loop, listen_to_peer;                                  *)
(*   SpecStartup    MainWindow.start_services: both services starting,     *)
(*                  their port errors and the handlers of these;           *)
(*   SpecEndToEnd   two instances: one discovers the other, connects to    *)
(*                  its server and sends to it;                            *)
(*   SpecShutdown   the server, its inbound sessions and closeEvent;       *)
(*   SpecIsolation  the server fed with the chunks of two transfers, some  *)
(*                  of them undecodable;                                   *)
(*   SpecTruncated  SpecTransfer on a source file that ends before         *)
(*                  file_size bytes are read;                              *)
(*   SpecConcurrent the receiving server fed with the chunks of three      *)
(*                  transfers, two of them with the same filename;         *)
(*   SpecOverlapping  the accepting side with two connections that may     *)
(*                  come from the same address.                            *)
(* SpecTransferFair, SpecDiscoveryFair, SpecServerFair and SpecClientFair  *)
(* add the fairness of the threads and coroutines for the liveness         *)
(* properties; SpecEndToEnd and SpecShutdown include theirs.               *)
(***************************************************************************)
EXTENDS Integers, Sequences, FiniteSets, TLC

VARIABLES
    \* ---- FileTransfer (sender worker), src/network/file_transfer.py
    file_size,          \* self.file_size = os.path.getsize(file_path)
    file_seed,          \* which content the source file has (see FileByte)
    bytes_sent,         \* self.bytes_sent
    paused,             \* self.paused
    cancelled,          \* self.cancelled
    pc,                 \* position of run()
    chunk_len,          \* len(chunk) of the chunk just sent (local of run)
    wire,               \* frames handed to websocket.send, not yet read by the peer
    progress_updated,   \* emitted progress_updated signals <<current, total>>
    transfer_completed, \* emitted transfer_completed signals <<success, message>>
    sent_log,           \* history: the file_chunk envelopes handed to the websocket
    cancel_at,          \* history: where the worker stood when cancel was first called
    pause_calls,        \* history: number of pause_transfer calls
    resume_calls,       \* history: number of resume_transfer calls
    slept,              \* history: the worker has slept in its pause loop
    pause_at,           \* history: where the worker stood when the pause in force began
    \* ---- WebSocketServer (receiver), src/network/communication.py
    clients,            \* self.clients: the addresses with an inbound connection
    active_transfers,   \* self.active_transfers: transfer_id -> Transfer record
    written,            \* history of the files written: the name, the bytes, and
                        \*   the chunk indices and total_chunks the Transfer held
    message_received,   \* emitted message_received signals <<ip, type, content>>
    declared_total,     \* SpecRecv: the totalChunks N of the transfer under test
    ingest_count,       \* SpecRecv history: chunk index -> times a chunk of the
                        \*   transfer (total_chunks = N, index in 0..N-1) was ingested
    stray_count,        \* SpecRecv history: number of other file_chunk frames ingested
    out_of_order,       \* SpecRecv history: a chunk arrived before one of lower index
    last_rx,            \* SpecRecv history: the number of frames ingested, the
                        \*   envelopes ingested into the Transfer record now held,
                        \*   and whether the last frame repeated one of them
    \* ---- PeerDiscovery (listener), src/network/communication.py
    current_user_uuid,  \* self.current_user_uuid
    running,            \* self.running
    listener,           \* position of listen_for_peers
    discovered_peers,   \* self.discovered_peers: ip -> [username, uuid]
    peer_found,         \* emitted peer_found signals <<ip, username, uuid>>
    port_error,         \* emitted port_error signals (PeerDiscovery)
    rx_count,           \* history: number of datagrams received
    last_dgram,         \* history: the last datagram received and its source
    announced,          \* history: the uuids (other than ours) announced so far
    broadcaster,        \* position of broadcast_presence
    broadcasts,         \* number of announcements broadcast
    sock_errors,        \* history: the loops in which a socket call has raised
    sock,               \* the UDP sockets of listen_for_peers and broadcast_presence
    \* ---- MainWindow outbound sessions, src/main.py
    websocket_clients,  \* self.websocket_clients: peer ip -> connection
    conn_open,          \* the connections that are open
    next_conn,          \* identity of the next connection attempted
    send_threads,       \* the send_async threads started and not yet run
    stream,             \* connection -> the frames handed to its transport, in order
    submitted,          \* history: number of send_message_to_peer calls that returned True
    send_results,       \* history: the value each send_message_to_peer call returned
    last_send,          \* history: what the last send_message_to_peer call found
    \* ---- the read loops of both sides, src/network/communication.py, src/main.py
    inbound,            \* handle_client coroutines: [ip, st], st "open", "closed" or "ended"
    loop_open,          \* the event loops of connect threads that still run, each
                        \* with its connection and the state of its listen_to_peer task
    chat,               \* chat_widget.add_message calls of listen_to_peer
    status_bar,         \* the message the status bar shows
    notified,           \* history: the connections whose "Disconnected" message was shown
    frames_read,        \* history: number of frames the read loops have taken
    last_frame,         \* history: the last frame taken and what was there before
    \* ---- MainWindow and the start of the services, src/main.py
    app,                \* the main window: "running", "port_dialog" or "closed"
    server,             \* WebSocketServer thread: "starting", "serving", "failed",
                        \*   "stop_returned", "closing", "stopped"
    ws_port_error,      \* emitted port_error signals (WebSocketServer)
    ws_warned,          \* handle_websocket_port_error has run
    ws_failed_at        \* history: what had happened when the server's bind failed

senderVars == <<file_size, file_seed, bytes_sent, paused, cancelled, pc, chunk_len,
                wire, progress_updated, transfer_completed, sent_log, cancel_at,
                pause_calls, resume_calls, slept, pause_at>>
recvVars == <<clients, active_transfers, written, message_received>>
poolVars == <<declared_total, ingest_count, stray_count, out_of_order, last_rx>>
discVars == <<current_user_uuid, running, listener, discovered_peers, peer_found,
              port_error, rx_count, last_dgram, announced, broadcaster, broadcasts,
              sock_errors, sock>>
sessVars == <<websocket_clients, conn_open, next_conn, send_threads, stream,
              submitted, send_results, last_send>>
loopVars == <<inbound, loop_open, chat, status_bar, notified, frames_read, last_frame>>
appVars == <<app, server, ws_port_error, ws_warned, ws_failed_at>>
vars == <<senderVars, recvVars, poolVars, discVars, sessVars, loopVars, appVars>>

-----------------------------------------------------------------------------
(* Python values *)

\* A dict is a sequence of <<key, value>> pairs with distinct keys, in insertion
\* order (the order a Python dict iterates in).
DictHas(d, k) == \E i \in DOMAIN d : d[i][1] = k
DictGet(d, k) == d[CHOOSE i \in DOMAIN d : d[i][1] = k][2]
DictSet(d, k, v) ==
    IF DictHas(d, k)
    THEN [i \in DOMAIN d |-> IF d[i][1] = k THEN <<k, v>> ELSE d[i]]
    ELSE Append(d, <<k, v>>)
DictLen(d) == Len(d)
DictKeys(d) == {d[i][1] : i \in DOMAIN d}

Min(a, b) == IF a <= b THEN a ELSE b

\* json.dumps of a dict: the members in insertion order.  A frame that is not
\* JSON has ok = FALSE.
JsonDumps(d) == [ok |-> TRUE, members |-> d]
NotJson == [ok |-> FALSE, members |-> <<>>]
\* json.loads: a dict; of a repeated member name the last value is kept.
JsonLoads(frame) ==
    LET m == frame.members
    IN [k \in {m[i][1] : i \in DOMAIN m} |->
            m[CHOOSE i \in DOMAIN m :
                 m[i][1] = k /\ \A j \in DOMAIN m : m[j][1] = k => j <= i][2]]

\* base64.b64encode(b).decode(): bytes (0..255) to characters, a character being
\* its 6-bit value 0..63, or Pad (64) for '='.
Pad == 64
B64Encode(b) ==
    LET n == Len(b)
    IN [j \in 1..(4 * ((n + 2) \div 3)) |->
          LET g  == (j - 1) \div 4
              k  == (j - 1) % 4
              b0 == b[3 * g + 1]
              b1 == IF 3 * g + 2 <= n THEN b[3 * g + 2] ELSE 0
              b2 == IF 3 * g + 3 <= n THEN b[3 * g + 3] ELSE 0
          IN CASE k = 0 -> b0 \div 4
               [] k = 1 -> (b0 % 4) * 16 + (b1 \div 16)
               [] k = 2 -> IF 3 * g + 2 > n THEN Pad ELSE (b1 % 16) * 4 + (b2 \div 64)
               [] k = 3 -> IF 3 * g + 3 > n THEN Pad ELSE b2 % 64]
\* Whether base64.b64decode(s) accepts s: the text comes in groups of four
\* characters, padded at the end only (binascii.Error otherwise).
B64Valid(s) ==
    /\ Len(s) % 4 = 0
    /\ \A i \in DOMAIN s : s[i] = Pad => (i = Len(s) \/ (i = Len(s) - 1 /\ s[Len(s)] = Pad))
\* base64.b64decode(s): characters to bytes.
B64Decode(s) ==
    LET m    == Len(s)
        npad == IF m = 0 THEN 0
                ELSE IF s[m - 1] = Pad THEN 2
                ELSE IF s[m] = Pad THEN 1 ELSE 0
    IN [i \in 1..(3 * (m \div 4) - npad) |->
          LET g  == (i - 1) \div 3
              k  == (i - 1) % 3
              c0 == s[4 * g + 1]
              c1 == s[4 * g + 2]
              c2 == s[4 * g + 3]
              c3 == s[4 * g + 4]
          IN CASE k = 0 -> c0 * 4 + (c1 \div 16)
               [] k = 1 -> (c1 % 16) * 16 + (c2 \div 4)
               [] k = 2 -> (c2 % 4) * 64 + c3]

-----------------------------------------------------------------------------
(* The source file of the transfer *)

SenderIp == "10.0.0.2"
TransferId == "t1"
Filename == "report.bin"

\* self.chunk_size.  The source fixes it at 8192 (file_transfer.py, line 31); the
\* model follows run()'s arithmetic with a chunk of a few bytes, of the same
\* residue modulo 3 as 8192 (so the base64 text of a full chunk is padded alike).
chunk_size == 5
\* The source file has any size from empty to MaxFileSize bytes: none, one,
\* a partial chunk, whole chunks, and whole chunks followed by a partial one.
MaxFileSize == 12
FileSizes == 0..MaxFileSize
FileSeeds == {0, 5}
\* Source files that have lost their end between os.path.getsize (line 30) and
\* the reads of run(): the last byte, or the last chunk_size bytes.
TruncatedSeeds == {1, 2}
\* The length of the source file when run() reads it.
FileLength(seed, size) ==
    IF seed = 1 THEN (IF size >= 1 THEN size - 1 ELSE 0)
    ELSE IF seed = 2 THEN (IF size >= chunk_size THEN size - chunk_size ELSE 0)
    ELSE size

\* The byte at 0-based offset i of the source file.
FileByte(seed, i) == (37 * i + 11 * (i \div chunk_size) + seed) % 256
\* file.read(n) at offset off of a file of the given size.
FileRead(seed, size, off, n) ==
    [i \in 1..Min(n, size - off) |-> FileByte(seed, off + i - 1)]
FileContent(seed, size) == FileRead(seed, size, 0, size)

-----------------------------------------------------------------------------
(* WebSocketServer: the receiving side *)

\* complete_file_transfer, lines 191-194: the chunks present among
\* 0 .. total_chunks-1, concatenated in ascending index order.
RECURSIVE AssembleFrom(_, _, _)
AssembleFrom(chunks, i, total) ==
    IF i >= total THEN <<>>
    ELSE (IF DictHas(chunks, i) THEN DictGet(chunks, i) ELSE <<>>)
         \o AssembleFrom(chunks, i + 1, total)

\* A plausible slip: the chunks written in the order the dict holds them (the
\* order they arrived in).
RECURSIVE ConcatValues(_, _)
ConcatValues(chunks, i) ==
    IF i > Len(chunks) THEN <<>> ELSE chunks[i][2] \o ConcatValues(chunks, i + 1)
AssembleArrivalOrder(transfer) == ConcatValues(transfer.chunks, 1)

Assemble(transfer) == AssembleFrom(transfer.chunks, 0, transfer.total_chunks)

\* The keys handle_file_chunk reads from the envelope (a missing one is a KeyError).
ChunkKeys == {"transfer_id", "chunk_data", "chunk_index", "total_chunks", "filename"}

\* del self.clients[client_ip] in handle_client's finally block.
DictDel(d, k) == SelectSeq(d, LAMBDA p : p[1] # k)

\* The handler of one connection ends with an exception that handle_client does
\* not catch: its finally block removes the client.
HandlerCrash(client_ip) ==
    /\ clients' = DictDel(clients, client_ip)
    /\ UNCHANGED <<active_transfers, written, message_received>>

\* A variant of complete_file_transfer whose `del` is the last statement of the
\* try block instead of the finally clause: a failed assembly keeps the record.
CompleteFileTransferLeaksOnError(transfers, transfer_id, io_ok) ==
    LET transfer == DictGet(transfers, transfer_id)
    IN IF io_ok
       THEN /\ written' = Append(written,
                                  [filename     |-> transfer.filename,
                                   bytes        |-> Assemble(transfer),
                                   indices      |-> DictKeys(transfer.chunks),
                                   total_chunks |-> transfer.total_chunks])
            /\ message_received' =
                  Append(message_received,
                         <<transfer.sender_ip, "file_completed", transfer.filename>>)
            /\ active_transfers' = DictDel(transfers, transfer_id)
       ELSE /\ written' = written
            /\ message_received' =
                  Append(message_received,
                         <<transfer.sender_ip, "file_error", "OSError">>)
            /\ active_transfers' = transfers

\* complete_file_transfer(transfer_id) on the table `transfers`; io_ok says
\* whether creating and writing the file succeeds.
CompleteFileTransfer(transfers, transfer_id, io_ok) ==
    LET transfer == DictGet(transfers, transfer_id)
    IN /\ IF io_ok
          THEN /\ written' = Append(written,
                                     [filename     |-> transfer.filename,
                                      bytes        |-> Assemble(transfer),
                                      indices      |-> DictKeys(transfer.chunks),
                                      total_chunks |-> transfer.total_chunks])
               /\ message_received' =
                     Append(message_received,
                            <<transfer.sender_ip, "file_completed", transfer.filename>>)
          ELSE /\ written' = written
               /\ message_received' =
                     Append(message_received,
                            <<transfer.sender_ip, "file_error", "OSError">>)
       /\ active_transfers' = DictDel(transfers, transfer_id)

\* A variant of line 174 that triggers one chunk early.
TriggerTotalEarly(data, transfer) == data["total_chunks"] - 1
\* line 174: the chunk count that triggers assembly is the total_chunks of the
\* envelope at hand (the local of handle_file_chunk), not the recorded one.
TriggerTotal(data, transfer) == data["total_chunks"]

\* handle_file_chunk(client_ip, data)
HandleFileChunk(client_ip, data, io_ok) ==
    IF ~(ChunkKeys \subseteq DOMAIN data)
       \/ ~B64Valid(data["chunk_data"])
       \/ (~DictHas(active_transfers, data["transfer_id"])
           /\ "file_size" \notin DOMAIN data)
    THEN HandlerCrash(client_ip)
    ELSE
      LET transfer_id == data["transfer_id"]
          chunk_data  == B64Decode(data["chunk_data"])
          started ==
              IF DictHas(active_transfers, transfer_id)
              THEN active_transfers
              ELSE DictSet(active_transfers, transfer_id,
                           [filename     |-> data["filename"],
                            sender_ip    |-> client_ip,
                            chunks       |-> <<>>,
                            total_chunks |-> data["total_chunks"],
                            file_size    |-> data["file_size"]])
          old    == DictGet(started, transfer_id)
          stored == DictSet(started, transfer_id,
                            [old EXCEPT !.chunks =
                                DictSet(old.chunks, data["chunk_index"], chunk_data)])
          now    == DictGet(stored, transfer_id)
      IN /\ clients' = clients
         /\ IF DictLen(now.chunks) = TriggerTotal(data, now)
            THEN CompleteFileTransfer(stored, transfer_id, io_ok)
            ELSE /\ active_transfers' = stored
                 /\ UNCHANGED <<written, message_received>>

\* One iteration of handle_client's `async for message in websocket`.
HandleClientFrame(client_ip, frame, io_ok) ==
    IF ~frame.ok
    THEN HandlerCrash(client_ip)
    ELSE LET data == JsonLoads(frame)
         IN IF "type" \notin DOMAIN data
            THEN HandlerCrash(client_ip)
            ELSE IF data["type"] = "file_chunk"
            THEN HandleFileChunk(client_ip, data, io_ok)
            ELSE IF "content" \notin DOMAIN data
            THEN HandlerCrash(client_ip)
            ELSE /\ message_received' =
                       Append(message_received,
                              <<client_ip, data["type"], data["content"]>>)
                 /\ UNCHANGED <<clients, active_transfers, written>>

-----------------------------------------------------------------------------
(* FileTransfer: the sending worker and its controls *)

\* Calls of pause_transfer and resume_transfer the model follows.
MaxControlCalls == 3

\* No pause is in force.
NoPause == [nsent |-> 0, bytes |-> 0, pc |-> "start"]

\* A variant of line 62 that numbers the chunks from 1.
ChunkIndexFromOne(sent, size) == sent \div size + 1
\* line 62 of run(): 'chunk_index'
ChunkIndex(sent, size) == sent \div size
\* line 63 of run(): 'total_chunks'
TotalChunks(fsize, size) == (fsize + size - 1) \div size

\* line 39
RunStart ==
    /\ pc = "start"
    /\ progress_updated' = Append(progress_updated, <<0, file_size>>)
    /\ pc' = "loop"
    /\ UNCHANGED <<file_size, file_seed, bytes_sent, paused, cancelled, chunk_len, wire,
                   transfer_completed, sent_log, cancel_at, pause_calls, resume_calls, slept, pause_at>>
    /\ UNCHANGED <<recvVars, poolVars, discVars, sessVars, loopVars, appVars>>

\* line 42
RunLoop ==
    /\ pc = "loop"
    /\ pc' = IF bytes_sent < file_size /\ ~cancelled THEN "pause_chk" ELSE "final"
    /\ UNCHANGED <<file_size, file_seed, bytes_sent, paused, cancelled, chunk_len, wire,
                   progress_updated, transfer_completed, sent_log, cancel_at,
                   pause_calls, resume_calls, slept, pause_at>>
    /\ UNCHANGED <<recvVars, poolVars, discVars, sessVars, loopVars, appVars>>

\* A variant of lines 44-45 that looks at self.paused and goes on without
\* waiting.
RunPauseCheckNoWait ==
    /\ pc = "pause_chk"
    /\ pc' = "cancel_chk"
    /\ slept' = (slept \/ (paused /\ ~cancelled))
    /\ UNCHANGED <<file_size, file_seed, bytes_sent, paused, cancelled, chunk_len, wire,
                   progress_updated, transfer_completed, sent_log, cancel_at,
                   pause_calls, resume_calls, pause_at>>
    /\ UNCHANGED <<recvVars, poolVars, discVars, sessVars, loopVars, appVars>>

\* A variant of lines 44-45 whose loop tests self.paused alone.
RunPauseCheckIgnoresCancel ==
    /\ pc = "pause_chk"
    /\ pc' = IF paused THEN "pause_chk" ELSE "cancel_chk"
    /\ slept' = (slept \/ (paused /\ ~cancelled))
    /\ UNCHANGED <<file_size, file_seed, bytes_sent, paused, cancelled, chunk_len, wire,
                   progress_updated, transfer_completed, sent_log, cancel_at,
                   pause_calls, resume_calls, pause_at>>
    /\ UNCHANGED <<recvVars, poolVars, discVars, sessVars, loopVars, appVars>>

\* lines 44-45: while paused and not cancelled, sleep and look again
RunPauseCheck ==
    /\ pc = "pause_chk"
    /\ pc' = IF paused /\ ~cancelled THEN "pause_chk" ELSE "cancel_chk"
    /\ slept' = (slept \/ (paused /\ ~cancelled))
    /\ UNCHANGED <<file_size, file_seed, bytes_sent, paused, cancelled, chunk_len, wire,
                   progress_updated, transfer_completed, sent_log, cancel_at,
                   pause_calls, resume_calls, pause_at>>
    /\ UNCHANGED <<recvVars, poolVars, discVars, sessVars, loopVars, appVars>>

\* lines 47-48
RunCancelCheck ==
    /\ pc = "cancel_chk"
    /\ pc' = IF cancelled THEN "final" ELSE "send"
    /\ UNCHANGED <<file_size, file_seed, bytes_sent, paused, cancelled, chunk_len, wire,
                   progress_updated, transfer_completed, sent_log, cancel_at,
                   pause_calls, resume_calls, slept, pause_at>>
    /\ UNCHANGED <<recvVars, poolVars, discVars, sessVars, loopVars, appVars>>

\* lines 50-72: read the chunk, build the envelope, hand it to the websocket
RunSend ==
    /\ pc = "send"
    /\ LET chunk == FileRead(file_seed, FileLength(file_seed, file_size), bytes_sent,
                             Min(chunk_size, file_size - bytes_sent))
           message == << <<"type", "file_chunk">>,
                         <<"transfer_id", TransferId>>,
                         <<"chunk_data", B64Encode(chunk)>>,
                         <<"chunk_index", ChunkIndex(bytes_sent, chunk_size)>>,
                         <<"total_chunks", TotalChunks(file_size, chunk_size)>>,
                         <<"file_size", file_size>>,
                         <<"filename", Filename>> >>
       IN IF Len(chunk) = 0
          THEN /\ pc' = "final"
               /\ UNCHANGED <<wire, sent_log, chunk_len>>
          ELSE /\ wire' = Append(wire, JsonDumps(message))
               /\ sent_log' = Append(sent_log,
                                     [chunk_index  |-> ChunkIndex(bytes_sent, chunk_size),
                                      total_chunks |-> TotalChunks(file_size, chunk_size),
                                      file_size    |-> file_size,
                                      nbytes       |-> Len(chunk),
                                      cancelled    |-> cancelled])
               /\ chunk_len' = Len(chunk)
               /\ pc' = "account"
    /\ UNCHANGED <<file_size, file_seed, bytes_sent, paused, cancelled,
                   progress_updated, transfer_completed, cancel_at,
                   pause_calls, resume_calls, slept, pause_at>>
    /\ UNCHANGED <<recvVars, poolVars, discVars, sessVars, loopVars, appVars>>

\* A variant of lines 86-87 that swallows the exception without a terminal event.
RunSendFailsSilent ==
    /\ pc = "send"
    /\ bytes_sent < file_size
    /\ pc' = "done"
    /\ UNCHANGED <<file_size, file_seed, bytes_sent, paused, cancelled, chunk_len, wire,
                   progress_updated, transfer_completed, sent_log, cancel_at,
                   pause_calls, resume_calls, slept, pause_at>>
    /\ UNCHANGED <<recvVars, poolVars, discVars, sessVars, loopVars, appVars>>

\* line 71 raises (the connection is gone): lines 86-87
RunSendFails ==
    /\ pc = "send"
    /\ bytes_sent < file_size
    /\ transfer_completed' = Append(transfer_completed, <<FALSE, "Transfer failed">>)
    /\ pc' = "done"
    /\ UNCHANGED <<file_size, file_seed, bytes_sent, paused, cancelled, chunk_len, wire,
                   progress_updated, sent_log, cancel_at, pause_calls, resume_calls, slept, pause_at>>
    /\ UNCHANGED <<recvVars, poolVars, discVars, sessVars, loopVars, appVars>>

\* A variant of line 74 that counts a whole chunk_size for every chunk.
RunAccountWholeChunk ==
    /\ pc = "account"
    /\ bytes_sent' = bytes_sent + chunk_size
    /\ progress_updated' = Append(progress_updated, <<bytes_sent + chunk_size, file_size>>)
    /\ pc' = "loop"
    /\ UNCHANGED <<file_size, file_seed, paused, cancelled, chunk_len, wire,
                   transfer_completed, sent_log, cancel_at, pause_calls, resume_calls, slept, pause_at>>
    /\ UNCHANGED <<recvVars, poolVars, discVars, sessVars, loopVars, appVars>>

\* lines 74-79
RunAccount ==
    /\ pc = "account"
    /\ bytes_sent' = bytes_sent + chunk_len
    /\ progress_updated' = Append(progress_updated, <<bytes_sent + chunk_len, file_size>>)
    /\ pc' = "loop"
    /\ UNCHANGED <<file_size, file_seed, paused, cancelled, chunk_len, wire,
                   transfer_completed, sent_log, cancel_at, pause_calls, resume_calls, slept, pause_at>>
    /\ UNCHANGED <<recvVars, poolVars, discVars, sessVars, loopVars, appVars>>

\* A variant of line 81 that reports success whatever self.cancelled holds.
RunFinalAlwaysSuccess ==
    /\ pc = "final"
    /\ pc' = "emit_true"
    /\ UNCHANGED <<file_size, file_seed, bytes_sent, paused, cancelled, chunk_len, wire,
                   progress_updated, transfer_completed, sent_log, cancel_at,
                   pause_calls, resume_calls, slept, pause_at>>
    /\ UNCHANGED <<recvVars, poolVars, discVars, sessVars, loopVars, appVars>>

\* line 81: the test of self.cancelled that picks the terminal event
RunFinal ==
    /\ pc = "final"
    /\ pc' = IF ~cancelled THEN "emit_true" ELSE "emit_false"
    /\ UNCHANGED <<file_size, file_seed, bytes_sent, paused, cancelled, chunk_len, wire,
                   progress_updated, transfer_completed, sent_log, cancel_at,
                   pause_calls, resume_calls, slept, pause_at>>
    /\ UNCHANGED <<recvVars, poolVars, discVars, sessVars, loopVars, appVars>>

\* lines 82 and 84
RunEmit ==
    /\ pc \in {"emit_true", "emit_false"}
    /\ transfer_completed' =
          Append(transfer_completed,
                 IF pc = "emit_true"
                 THEN <<TRUE, "Transfer completed successfully">>
                 ELSE <<FALSE, "Transfer cancelled">>)
    /\ pc' = "done"
    /\ UNCHANGED <<file_size, file_seed, bytes_sent, paused, cancelled, chunk_len, wire,
                   progress_updated, sent_log, cancel_at, pause_calls, resume_calls, slept, pause_at>>
    /\ UNCHANGED <<recvVars, poolVars, discVars, sessVars, loopVars, appVars>>

\* pause_transfer(), called by the GUI thread
PauseTransfer ==
    /\ pause_calls + resume_calls < MaxControlCalls
    /\ paused' = TRUE
    /\ pause_calls' = pause_calls + 1
    /\ pause_at' = IF paused THEN pause_at
                   ELSE [nsent |-> Len(sent_log), bytes |-> bytes_sent, pc |-> pc]
    /\ UNCHANGED <<file_size, file_seed, bytes_sent, cancelled, pc, chunk_len, wire,
                   progress_updated, transfer_completed, sent_log, cancel_at,
                   resume_calls, slept>>
    /\ UNCHANGED <<recvVars, poolVars, discVars, sessVars, loopVars, appVars>>

\* A variant of resume_transfer that starts the file over.
ResumeTransferRestart ==
    /\ pause_calls + resume_calls < MaxControlCalls
    /\ paused' = FALSE
    /\ bytes_sent' = 0
    /\ resume_calls' = resume_calls + 1
    /\ pause_at' = NoPause
    /\ UNCHANGED <<file_size, file_seed, cancelled, pc, chunk_len, wire,
                   progress_updated, transfer_completed, sent_log, cancel_at,
                   pause_calls, slept>>
    /\ UNCHANGED <<recvVars, poolVars, discVars, sessVars, loopVars, appVars>>

\* resume_transfer(), called by the GUI thread
ResumeTransfer ==
    /\ pause_calls + resume_calls < MaxControlCalls
    /\ paused' = FALSE
    /\ resume_calls' = resume_calls + 1
    /\ pause_at' = NoPause
    /\ UNCHANGED <<file_size, file_seed, bytes_sent, cancelled, pc, chunk_len, wire,
                   progress_updated, transfer_completed, sent_log, cancel_at,
                   pause_calls, slept>>
    /\ UNCHANGED <<recvVars, poolVars, discVars, sessVars, loopVars, appVars>>

\* cancel_transfer(), called by the GUI thread
CancelTransfer ==
    /\ cancelled' = TRUE
    /\ cancel_at' = IF cancel_at.called THEN cancel_at
                    ELSE [called |-> TRUE, nsent |-> Len(sent_log),
                          bytes |-> bytes_sent, pc |-> pc]
    /\ UNCHANGED <<file_size, file_seed, bytes_sent, paused, pc, chunk_len, wire,
                   progress_updated, transfer_completed, sent_log,
                   pause_calls, resume_calls, slept, pause_at>>
    /\ UNCHANGED <<recvVars, poolVars, discVars, sessVars, loopVars, appVars>>

\* The peer's server reads the next frame of the worker's connection.
ReceiverRead ==
    /\ wire # <<>>
    /\ DictHas(clients, SenderIp)
    /\ \E io_ok \in BOOLEAN : HandleClientFrame(SenderIp, Head(wire), io_ok)
    /\ wire' = Tail(wire)
    /\ UNCHANGED <<file_size, file_seed, bytes_sent, paused, cancelled, pc, chunk_len,
                   progress_updated, transfer_completed, sent_log, cancel_at,
                   pause_calls, resume_calls, slept, pause_at>>
    /\ UNCHANGED <<poolVars, discVars, sessVars, loopVars, appVars>>

NoCancel == [called |-> FALSE, nsent |-> 0, bytes |-> 0, pc |-> "start"]

InitRecv ==
    /\ clients = << <<SenderIp, 1>> >>
    /\ active_transfers = <<>>
    /\ written = <<>>
    /\ message_received = <<>>

NoRx == [n |-> 0, seen |-> {}, redelivery |-> FALSE]

InitPoolIdle ==
    /\ declared_total = 0
    /\ ingest_count = <<>>
    /\ stray_count = 0
    /\ out_of_order = FALSE
    /\ last_rx = NoRx

\* lines 42-44 and 69-70: each activity creates its socket when it starts.
SocksOpen == [listen |-> "open", broadcast |-> "open"]

NoDgram == [ip |-> "", uuid |-> "", own |-> FALSE, malformed |-> FALSE]

InitDiscIdle ==
    /\ current_user_uuid = "aaa"
    /\ running = TRUE
    /\ listener = "bind"
    /\ discovered_peers = <<>>
    /\ peer_found = <<>>
    /\ port_error = <<>>
    /\ rx_count = 0
    /\ last_dgram = NoDgram
    /\ announced = {}
    /\ broadcaster = "sending"
    /\ broadcasts = 0
    /\ sock_errors = {}
    /\ sock = SocksOpen

NoSend == [peer_ip |-> "", registered |-> FALSE, open |-> FALSE, result |-> FALSE]

InitSessIdle ==
    /\ websocket_clients = <<>>
    /\ conn_open = {}
    /\ next_conn = 1
    /\ send_threads = {}
    /\ stream = <<>>
    /\ submitted = 0
    /\ send_results = <<>>
    /\ last_send = NoSend

NoFrame == [side |-> "", conn |-> 0, ip |-> "", frame |-> NotJson,
            registered |-> FALSE, events |-> 0, chats |-> 0]

InitLoopIdle ==
    /\ inbound = <<>>
    /\ loop_open = {}
    /\ chat = <<>>
    /\ status_bar = <<"", "">>
    /\ notified = {}
    /\ frames_read = 0
    /\ last_frame = NoFrame

NoFailure == [failed |-> FALSE, peers |-> 0, broadcasts |-> 0, conns |-> 0, sends |-> 0]

\* Both services are up and the main window is shown.
InitAppIdle ==
    /\ app = "running"
    /\ server = "serving"
    /\ ws_port_error = <<>>
    /\ ws_warned = FALSE
    /\ ws_failed_at = NoFailure

InitSenderIdle ==
    /\ file_size = 0
    /\ file_seed = 0
    /\ bytes_sent = 0
    /\ paused = FALSE
    /\ cancelled = FALSE
    /\ pc = "done"
    /\ chunk_len = 0
    /\ wire = <<>>
    /\ progress_updated = <<>>
    /\ transfer_completed = <<>>
    /\ sent_log = <<>>
    /\ cancel_at = NoCancel
    /\ pause_calls = 0
    /\ resume_calls = 0
    /\ slept = FALSE
    /\ pause_at = NoPause

\* FileTransfer.__init__ (lines 24-34) on a file of any of the sizes, and the
\* peer's server with the worker's connection accepted.
InitTransfer ==
    /\ file_size \in FileSizes
    /\ file_seed \in FileSeeds
    /\ bytes_sent = 0
    /\ paused = FALSE
    /\ cancelled = FALSE
    /\ pc = "start"
    /\ chunk_len = 0
    /\ wire = <<>>
    /\ progress_updated = <<>>
    /\ transfer_completed = <<>>
    /\ sent_log = <<>>
    /\ cancel_at = NoCancel
    /\ pause_calls = 0
    /\ resume_calls = 0
    /\ slept = FALSE
    /\ pause_at = NoPause
    /\ InitRecv
    /\ InitPoolIdle
    /\ InitDiscIdle
    /\ InitSessIdle
    /\ InitLoopIdle
    /\ InitAppIdle

NextTransfer ==
    \/ RunStart
    \/ RunLoop
    \/ RunPauseCheck
    \/ RunCancelCheck
    \/ RunSend
    \/ RunSendFails
    \/ RunAccount
    \/ RunFinal
    \/ RunEmit
    \/ PauseTransfer
    \/ ResumeTransfer
    \/ CancelTransfer
    \/ ReceiverRead

SpecTransfer == InitTransfer /\ [][NextTransfer]_vars

\* The same worker on a source file that is shorter than self.file_size says.
InitTruncated ==
    /\ file_size \in FileSizes
    /\ file_seed \in TruncatedSeeds
    /\ bytes_sent = 0
    /\ paused = FALSE
    /\ cancelled = FALSE
    /\ pc = "start"
    /\ chunk_len = 0
    /\ wire = <<>>
    /\ progress_updated = <<>>
    /\ transfer_completed = <<>>
    /\ sent_log = <<>>
    /\ cancel_at = NoCancel
    /\ pause_calls = 0
    /\ resume_calls = 0
    /\ slept = FALSE
    /\ pause_at = NoPause
    /\ InitRecv
    /\ InitPoolIdle
    /\ InitDiscIdle
    /\ InitSessIdle
    /\ InitLoopIdle
    /\ InitAppIdle

SpecTruncated == InitTruncated /\ [][NextTransfer]_vars

\* The worker is a thread of its own: it takes its next step.
SpecTransferFair ==
    /\ SpecTransfer
    /\ WF_vars(RunStart \/ RunLoop \/ RunPauseCheck \/ RunCancelCheck \/ RunSend
                 \/ RunSendFails \/ RunAccount \/ RunFinal \/ RunEmit)

-----------------------------------------------------------------------------
(* The receiving server fed by a peer that sends what it likes *)

\* The transfer under test has totalChunks = N for an N of 1 .. MaxTotal.
MaxTotal == 3
\* Frames the peer sends in one run.
MaxDeliveries == 4
\* Frames among them that are no chunk of the transfer.
MaxStrays == 1

\* The bytes of chunk i of the transfer: one to three bytes, so that the base64
\* text of the chunks is padded in each of the three ways.
PoolData(i) == [j \in 1..(1 + (i % 3)) |-> (50 * i + 97 * j + 200) % 256]
RECURSIVE PoolFileSize(_)
PoolFileSize(n) == IF n = 0 THEN 0 ELSE Len(PoolData(n - 1)) + PoolFileSize(n - 1)

\* The file_chunk envelope with the given chunk_index and total_chunks, as a peer
\* builds it (file_transfer.py, lines 58-66).
PoolEnvelope(idx, total) ==
    << <<"type", "file_chunk">>,
       <<"transfer_id", TransferId>>,
       <<"chunk_data", B64Encode(PoolData(idx))>>,
       <<"chunk_index", idx>>,
       <<"total_chunks", total>>,
       <<"file_size", PoolFileSize(declared_total)>>,
       <<"filename", Filename>> >>

\* A chunk of the transfer: its index is one of 0 .. N-1 and it carries
\* total_chunks = N.
IsTransferChunk(idx, total) == idx \in 0..(declared_total - 1) /\ total = declared_total

\* The server reads one file_chunk frame from the peer's connection.  The peer
\* may send any chunk of the transfer, at any time and again, and also frames
\* with an index past the last one or with another total_chunks.
RecvChunk(idx, total) ==
    /\ last_rx.n < MaxDeliveries
    /\ IsTransferChunk(idx, total) \/ stray_count < MaxStrays
    /\ DictHas(clients, SenderIp)
    /\ \E io_ok \in BOOLEAN :
          HandleClientFrame(SenderIp, JsonDumps(PoolEnvelope(idx, total)), io_ok)
    /\ IF IsTransferChunk(idx, total)
       THEN /\ ingest_count' = [ingest_count EXCEPT ![idx] = @ + 1]
            /\ stray_count' = stray_count
       ELSE /\ ingest_count' = ingest_count
            /\ stray_count' = stray_count + 1
    /\ out_of_order' =
          (out_of_order
             \/ (/\ IsTransferChunk(idx, total)
                 /\ \E j \in 0..(idx - 1) : ingest_count[j] = 0))
    /\ last_rx' =
          [n |-> last_rx.n + 1,
           seen |-> IF DictHas(active_transfers', TransferId)
                    THEN (IF DictHas(active_transfers, TransferId)
                          THEN last_rx.seen ELSE {}) \cup {<<idx, total>>}
                    ELSE {},
           redelivery |-> /\ DictHas(active_transfers, TransferId)
                          /\ <<idx, total>> \in last_rx.seen
                          /\ DictHas(DictGet(active_transfers, TransferId).chunks, idx)]
    /\ UNCHANGED <<declared_total, senderVars, discVars, sessVars, loopVars, appVars>>

InitRecvPool ==
    /\ declared_total \in 1..MaxTotal
    /\ ingest_count = [i \in 0..(declared_total - 1) |-> 0]
    /\ stray_count = 0
    /\ out_of_order = FALSE
    /\ last_rx = NoRx
    /\ InitRecv
    /\ InitSenderIdle
    /\ InitDiscIdle
    /\ InitSessIdle
    /\ InitLoopIdle
    /\ InitAppIdle

NextRecv ==
    \E idx \in 0..declared_total :
        \E total \in {declared_total - 1, declared_total, declared_total + 1} :
            RecvChunk(idx, total)

SpecRecv == InitRecvPool /\ [][NextRecv]_vars

-----------------------------------------------------------------------------
(* The receiving server fed the chunks of several transfers, interleaved *)

\* The transfers in flight: t1 and t2 carry the same filename, t3 another.
ConcurrentIds == <<"t1", "t2", "t3">>
OtherFilename == "notes.bin"
TransferFilename(k) == IF k = 3 THEN OtherFilename ELSE Filename
\* Each of them has this many chunks.
ConcurrentTotal == 2
\* Frames the server reads in one run.
MaxInterleaved == 5

\* The bytes of chunk idx of the k-th transfer; no two chunks are alike.
ConcurrentData(k, idx) == PoolData(ConcurrentTotal * (k - 1) + idx)
\* The source file of the k-th transfer.
ConcurrentFile(k) == ConcurrentData(k, 0) \o ConcurrentData(k, 1)

\* The file_chunk envelope of chunk idx of the k-th transfer (file_transfer.py,
\* lines 58-66).
ConcurrentEnvelope(k, idx) ==
    << <<"type", "file_chunk">>,
       <<"transfer_id", ConcurrentIds[k]>>,
       <<"chunk_data", B64Encode(ConcurrentData(k, idx))>>,
       <<"chunk_index", idx>>,
       <<"total_chunks", ConcurrentTotal>>,
       <<"file_size", Len(ConcurrentFile(k))>>,
       <<"filename", TransferFilename(k)>> >>

\* The server reads chunk idx of the k-th transfer from the peer's connection.
RecvConcurrent(k, idx) ==
    /\ last_rx.n < MaxInterleaved
    /\ DictHas(clients, SenderIp)
    /\ \E io_ok \in BOOLEAN :
          HandleClientFrame(SenderIp, JsonDumps(ConcurrentEnvelope(k, idx)), io_ok)
    /\ last_rx' = [last_rx EXCEPT !.n = @ + 1]
    /\ UNCHANGED <<declared_total, ingest_count, stray_count, out_of_order>>
    /\ UNCHANGED <<senderVars, discVars, sessVars, loopVars, appVars>>

InitConcurrent ==
    /\ InitRecv
    /\ InitPoolIdle
    /\ InitSenderIdle
    /\ InitDiscIdle
    /\ InitSessIdle
    /\ InitLoopIdle
    /\ InitAppIdle

NextConcurrent ==
    \E k \in DOMAIN ConcurrentIds : \E idx \in 0..(ConcurrentTotal - 1) :
        RecvConcurrent(k, idx)

SpecConcurrent == InitConcurrent /\ [][NextConcurrent]_vars

-----------------------------------------------------------------------------
(* PeerDiscovery: the listener *)

Uuids == {"aaa", "bbb", "ccc"}
Usernames == {"alice", "bob"}
\* Source addresses of datagrams; the first is the instance's own.
Ips == {"10.0.0.1", "10.0.0.2", "10.0.0.3"}
\* Datagrams the listener receives, and announcements broadcast, in one run.
MaxDatagrams == 2
MaxBroadcasts == 1

\* The datagram broadcast_presence sends (lines 48-56).
Announcement(username, uuid) ==
    JsonDumps(<< <<"type", "peer_announcement">>,
                 <<"username", username>>,
                 <<"uuid", uuid>>,
                 <<"port", 8081>>,
                 <<"discovery_port", 8080>> >>)
\* Datagrams of other senders: an announcement with no uuid, one with no
\* username, JSON of another type, JSON with no type, and bytes that are no JSON.
AnnouncementNoUuid(username) ==
    JsonDumps(<< <<"type", "peer_announcement">>, <<"username", username>> >>)
AnnouncementNoUsername(uuid) ==
    JsonDumps(<< <<"type", "peer_announcement">>, <<"uuid", uuid>> >>)
OtherTypeDatagram ==
    JsonDumps(<< <<"type", "test_announcement">>, <<"username", "alice">> >>)
NoTypeDatagram == JsonDumps(<< <<"username", "alice">> >>)
Datagrams ==
    {Announcement(n, u) : n \in Usernames, u \in Uuids}
        \cup {AnnouncementNoUuid("bob")}
        \cup {AnnouncementNoUsername("ccc")}
        \cup {OtherTypeDatagram, NoTypeDatagram, NotJson}

\* A variant of line 93 that never takes an announcement for our own.
NotOwnUuidNever(peer_uuid) == TRUE
\* line 93: peer_uuid != self.current_user_uuid
NotOwnUuid(peer_uuid) == peer_uuid # current_user_uuid

\* lines 72-74: the bind succeeds
ListenBindOk ==
    /\ listener = "bind"
    /\ listener' = "listening"
    /\ UNCHANGED <<current_user_uuid, running, discovered_peers, peer_found,
                   port_error, rx_count, last_dgram, announced,
                   broadcaster, broadcasts, sock_errors, sock>>
    /\ UNCHANGED <<senderVars, recvVars, poolVars, sessVars, loopVars, appVars>>

\* lines 75-78: the port is taken.  The function returns before the try block
\* whose finally clause closes the socket (lines 81-108): no statement closes
\* it, and it is closed only if and when the interpreter finalises the object.
ListenBindFails ==
    /\ listener = "bind"
    /\ port_error' = Append(port_error, "Port 8080 already in use.")
    /\ listener' = "exited"
    /\ \E state \in {"open", "closed"} : sock' = [sock EXCEPT !.listen = state]
    /\ UNCHANGED <<current_user_uuid, running, discovered_peers, peer_found,
                   rx_count, last_dgram, announced, broadcaster, broadcasts, sock_errors>>
    /\ UNCHANGED <<senderVars, recvVars, poolVars, sessVars, loopVars, appVars>>

\* lines 82-106: one iteration of the loop that receives the datagram `frame`
\* from address ip.
ListenReceive(frame, ip) ==
    /\ listener = "listening"
    /\ running
    /\ rx_count < MaxDatagrams
    /\ LET data == JsonLoads(frame)
           isAnnouncement == /\ frame.ok
                             /\ "type" \in DOMAIN data
                             /\ data["type"] = "peer_announcement"
           raises == \/ ~frame.ok
                     \/ "type" \notin DOMAIN data
                     \/ isAnnouncement /\ "username" \notin DOMAIN data
           peer_uuid == IF "uuid" \in DOMAIN data THEN data["uuid"] ELSE "unknown"
       IN /\ IF raises
             THEN /\ listener' = "exited"
                  /\ UNCHANGED <<discovered_peers, peer_found>>
             ELSE /\ listener' = listener
                  /\ IF isAnnouncement /\ NotOwnUuid(peer_uuid)
                     THEN IF ~DictHas(discovered_peers, ip)
                          THEN /\ discovered_peers' =
                                     DictSet(discovered_peers, ip,
                                             [username |-> data["username"],
                                              uuid |-> peer_uuid])
                               /\ peer_found' =
                                     Append(peer_found,
                                            <<ip, data["username"], peer_uuid>>)
                          ELSE /\ discovered_peers' =
                                     DictSet(discovered_peers, ip,
                                             [username |-> data["username"],
                                              uuid |-> peer_uuid])
                               /\ peer_found' = peer_found
                     ELSE UNCHANGED <<discovered_peers, peer_found>>
          /\ last_dgram' =
                [ip |-> ip,
                 uuid |-> IF isAnnouncement THEN peer_uuid ELSE "",
                 own |-> isAnnouncement /\ peer_uuid = current_user_uuid,
                 malformed |-> \/ ~frame.ok
                               \/ "type" \notin DOMAIN data
                               \/ isAnnouncement /\ "username" \notin DOMAIN data
                               \/ isAnnouncement /\ "uuid" \notin DOMAIN data]
          /\ announced' =
                IF isAnnouncement /\ ~raises /\ peer_uuid # current_user_uuid
                THEN announced \cup {peer_uuid}
                ELSE announced
    /\ rx_count' = rx_count + 1
    /\ sock' = IF listener' = "exited" THEN [sock EXCEPT !.listen = "closed"] ELSE sock
    /\ UNCHANGED <<current_user_uuid, running, port_error, broadcaster, broadcasts,
                   sock_errors>>
    /\ UNCHANGED <<senderVars, recvVars, poolVars, sessVars, loopVars, appVars>>

\* lines 102-103: recvfrom times out and the loop goes round
ListenTimeout ==
    /\ listener = "listening"
    /\ running
    /\ UNCHANGED vars

\* line 82 finds self.running false: the loop ends and the socket is closed
ListenLoopExit ==
    /\ listener = "listening"
    /\ ~running
    /\ listener' = "exited"
    /\ sock' = [sock EXCEPT !.listen = "closed"]
    /\ UNCHANGED <<current_user_uuid, running, discovered_peers, peer_found,
                   port_error, rx_count, last_dgram, announced,
                   broadcaster, broadcasts, sock_errors>>
    /\ UNCHANGED <<senderVars, recvVars, poolVars, sessVars, loopVars, appVars>>

\* lines 84, 104-106: recvfrom raises a socket error other than the timeout
ListenRecvFails ==
    /\ listener = "listening"
    /\ running
    /\ listener' = "exited"
    /\ sock_errors' = sock_errors \cup {"listen"}
    /\ sock' = [sock EXCEPT !.listen = "closed"]
    /\ UNCHANGED <<current_user_uuid, running, discovered_peers, peer_found,
                   port_error, rx_count, last_dgram, announced, broadcaster, broadcasts>>
    /\ UNCHANGED <<senderVars, recvVars, poolVars, sessVars, loopVars, appVars>>

\* broadcast_presence, lines 47-59: one announcement is broadcast
BroadcastSend ==
    /\ broadcaster = "sending"
    /\ running
    /\ broadcasts < MaxBroadcasts
    /\ broadcasts' = broadcasts + 1
    /\ UNCHANGED <<current_user_uuid, running, listener, discovered_peers, peer_found,
                   port_error, rx_count, last_dgram, announced, broadcaster, sock_errors, sock>>
    /\ UNCHANGED <<senderVars, recvVars, poolVars, sessVars, loopVars, appVars>>

\* broadcast_presence, lines 57, 61-64: sendto raises
BroadcastSendFails ==
    /\ broadcaster = "sending"
    /\ running
    /\ broadcaster' = "exited"
    /\ sock_errors' = sock_errors \cup {"broadcast"}
    /\ sock' = [sock EXCEPT !.broadcast = "closed"]
    /\ UNCHANGED <<current_user_uuid, running, listener, discovered_peers, peer_found,
                   port_error, rx_count, last_dgram, announced, broadcasts>>
    /\ UNCHANGED <<senderVars, recvVars, poolVars, sessVars, loopVars, appVars>>

\* broadcast_presence, line 47 finds self.running false
BroadcastLoopExit ==
    /\ broadcaster = "sending"
    /\ ~running
    /\ broadcaster' = "exited"
    /\ sock' = [sock EXCEPT !.broadcast = "closed"]
    /\ UNCHANGED <<current_user_uuid, running, listener, discovered_peers, peer_found,
                   port_error, rx_count, last_dgram, announced, broadcasts, sock_errors>>
    /\ UNCHANGED <<senderVars, recvVars, poolVars, sessVars, loopVars, appVars>>

\* stop(), lines 110-114
DiscoveryStop ==
    /\ running
    /\ running' = FALSE
    /\ UNCHANGED <<current_user_uuid, listener, discovered_peers, peer_found,
                   port_error, rx_count, last_dgram, announced,
                   broadcaster, broadcasts, sock_errors, sock>>
    /\ UNCHANGED <<senderVars, recvVars, poolVars, sessVars, loopVars, appVars>>

\* PeerDiscovery.__init__ (lines 21-27), for any uuid of ours.
InitDiscovery ==
    /\ current_user_uuid \in Uuids
    /\ running = TRUE
    /\ listener = "bind"
    /\ discovered_peers = <<>>
    /\ peer_found = <<>>
    /\ port_error = <<>>
    /\ rx_count = 0
    /\ last_dgram = NoDgram
    /\ announced = {}
    /\ broadcaster = "sending"
    /\ broadcasts = 0
    /\ sock_errors = {}
    /\ sock = SocksOpen
    /\ InitSenderIdle
    /\ InitRecv
    /\ InitPoolIdle
    /\ InitSessIdle
    /\ InitLoopIdle
    /\ InitAppIdle

NextDiscovery ==
    \/ ListenBindOk
    \/ ListenBindFails
    \/ \E frame \in Datagrams : \E ip \in Ips : ListenReceive(frame, ip)
    \/ ListenTimeout
    \/ ListenLoopExit
    \/ ListenRecvFails
    \/ BroadcastSend
    \/ BroadcastSendFails
    \/ BroadcastLoopExit
    \/ DiscoveryStop

SpecDiscovery == InitDiscovery /\ [][NextDiscovery]_vars

\* The two threads of discovery are scheduled: recvfrom returns after its
\* timeout of one second at the latest (line 80) and the broadcaster's sleep
\* ends (line 59), so that each loop comes to test self.running again.
SpecDiscoveryFair ==
    /\ SpecDiscovery
    /\ WF_vars(ListenBindOk \/ ListenBindFails \/ ListenLoopExit)
    /\ WF_vars(BroadcastLoopExit)

-----------------------------------------------------------------------------
(* MainWindow: outbound sessions and the sending of messages *)

PeerIps == {"10.0.0.2", "10.0.0.3"}
MessageTypes == {"text", "image"}
\* Connections attempted and send_message_to_peer calls in one run.
MaxConns == 2
MaxSends == 2

\* connect_to_peer, lines 261-275, run by connect_to_peer_sync (lines 253-255) on
\* the new event loop of its thread: the connection is made and registered, and
\* the listen_to_peer task is created on that loop.
ConnectToPeerOk(peer_ip) ==
    /\ app = "running"
    /\ next_conn <= MaxConns
    /\ websocket_clients' = DictSet(websocket_clients, peer_ip, next_conn)
    /\ conn_open' = conn_open \cup {next_conn}
    /\ stream' = DictSet(stream, next_conn, <<>>)
    /\ next_conn' = next_conn + 1
    /\ loop_open' = loop_open \cup {[conn |-> next_conn, peer_ip |-> peer_ip,
                                      task |-> "reading"]}
    /\ status_bar' = <<"Connected to peer at", peer_ip>>
    /\ UNCHANGED <<send_threads, submitted, send_results, last_send>>
    /\ UNCHANGED <<inbound, chat, notified, frames_read, last_frame>>
    /\ UNCHANGED <<senderVars, recvVars, poolVars, discVars, appVars>>

\* connect_to_peer_sync, lines 255-259: run_until_complete returns as soon as
\* connect_to_peer has returned, and the finally clause closes the loop.  The
\* listen_to_peer task created on that loop is never resumed afterwards.
ConnectSyncClose(t) ==
    /\ t \in loop_open
    /\ loop_open' = loop_open \ {t}
    /\ UNCHANGED <<inbound, chat, status_bar, notified, frames_read, last_frame>>
    /\ UNCHANGED <<senderVars, recvVars, poolVars, discVars, sessVars, appVars>>

\* connect_to_peer, lines 276-281: the connection attempt fails
ConnectToPeerFails(peer_ip) ==
    /\ app = "running"
    /\ next_conn <= MaxConns
    /\ next_conn' = next_conn + 1
    /\ websocket_clients' = DictDel(websocket_clients, peer_ip)
    /\ status_bar' = <<"Failed to connect to", peer_ip>>
    /\ UNCHANGED <<conn_open, stream, send_threads, submitted, send_results, last_send>>
    /\ UNCHANGED <<inbound, loop_open, chat, notified, frames_read, last_frame>>
    /\ UNCHANGED <<senderVars, recvVars, poolVars, discVars, appVars>>

\* The peer, or the network, closes a connection.
ConnectionCloses(c) ==
    /\ c \in conn_open
    /\ conn_open' = conn_open \ {c}
    /\ UNCHANGED <<websocket_clients, stream, next_conn, send_threads, submitted,
                   send_results, last_send>>
    /\ UNCHANGED <<senderVars, recvVars, poolVars, discVars, loopVars, appVars>>

\* send_message_to_peer, lines 371-404.  The timestamp is the reading of a clock
\* that advances with every call.
SendMessageToPeer(peer_ip, message_type, content) ==
    /\ app = "running"
    /\ Len(send_results) < MaxSends
    /\ IF ~DictHas(websocket_clients, peer_ip)
       THEN /\ send_results' = Append(send_results, FALSE)
            /\ status_bar' = <<"No connection to", peer_ip>>
            /\ UNCHANGED <<send_threads, submitted>>
       ELSE /\ send_threads' =
                  send_threads \cup
                     {[id |-> submitted + 1,
                       peer_ip |-> peer_ip,
                       message |-> JsonDumps(<< <<"type", message_type>>,
                                                <<"content", content>>,
                                                <<"timestamp", submitted + 1>>,
                                                <<"sender", "alice">> >>)]}
            /\ submitted' = submitted + 1
            /\ send_results' = Append(send_results, TRUE)
            /\ status_bar' = status_bar
    /\ last_send' =
          [peer_ip |-> peer_ip,
           registered |-> DictHas(websocket_clients, peer_ip),
           open |-> DictHas(websocket_clients, peer_ip)
                      /\ DictGet(websocket_clients, peer_ip) \in conn_open,
           result |-> send_results'[Len(send_results')]]
    /\ UNCHANGED <<websocket_clients, conn_open, stream, next_conn>>
    /\ UNCHANGED <<inbound, loop_open, chat, notified, frames_read, last_frame>>
    /\ UNCHANGED <<senderVars, recvVars, poolVars, discVars, appVars>>

\* send_async, lines 388-397: the body of one sending thread.  The lookup of the
\* session is made when the thread runs; a missing session or a closed
\* connection raises, and the exception is swallowed.
SendAsync(t) ==
    /\ t \in send_threads
    /\ send_threads' = send_threads \ {t}
    /\ IF DictHas(websocket_clients, t.peer_ip)
          /\ DictGet(websocket_clients, t.peer_ip) \in conn_open
       THEN stream' = DictSet(stream, DictGet(websocket_clients, t.peer_ip),
                              Append(DictGet(stream, DictGet(websocket_clients, t.peer_ip)),
                                     t.message))
       ELSE stream' = stream
    /\ UNCHANGED <<websocket_clients, conn_open, next_conn, submitted, send_results,
                   last_send>>
    /\ UNCHANGED <<senderVars, recvVars, poolVars, discVars, loopVars, appVars>>

\* MainWindow.__init__, line 40
InitSend ==
    /\ InitSessIdle
    /\ InitLoopIdle
    /\ InitAppIdle
    /\ InitSenderIdle
    /\ InitRecv
    /\ InitPoolIdle
    /\ InitDiscIdle

NextSend ==
    \/ \E peer_ip \in PeerIps : ConnectToPeerOk(peer_ip)
    \/ \E t \in loop_open : ConnectSyncClose(t)
    \/ \E peer_ip \in PeerIps : ConnectToPeerFails(peer_ip)
    \/ \E c \in conn_open : ConnectionCloses(c)
    \/ \E peer_ip \in PeerIps : \E ty \in MessageTypes :
          SendMessageToPeer(peer_ip, ty, "hello")
    \/ \E t \in send_threads : SendAsync(t)

SpecSend == InitSend /\ [][NextSend]_vars

-----------------------------------------------------------------------------
(* The read loops: handle_client on the accepting side, listen_to_peer on the
   initiating side *)

\* Inbound connections accepted and frames read in one run.
MaxAccepts == 1
MaxFrames == 2
\* Chunks of the transfer whose file_chunk frames the peers may send here.
SessionTotal == 2

\* Envelopes as send_message_to_peer builds them (main.py, lines 379-384).
Envelope(message_type, content) ==
    JsonDumps(<< <<"type", message_type>>,
                 <<"content", content>>,
                 <<"timestamp", 7>>,
                 <<"sender", "bob">> >>)
RoutedTypes == {"text", "image", "file_completed", "file_error"}
\* What a peer may put on a connection: envelopes of the routed types, the
\* file_chunk frames of one transfer, JSON with no type, JSON with no content,
\* and text that is no JSON.
SessionFrames ==
    {Envelope(ty, "hello") : ty \in RoutedTypes}
        \cup {JsonDumps(PoolEnvelope(i, SessionTotal)) : i \in 0..(SessionTotal - 1)}
        \cup {JsonDumps(<< <<"content", "hello">> >>),
              JsonDumps(<< <<"type", "text">> >>),
              NotJson}

\* Whether handling `frame` raises in handle_client (lines 136-143) or in
\* handle_file_chunk (lines 153-166): json.loads fails or a key is missing.
HandlerRaises(frame) ==
    \/ ~frame.ok
    \/ LET data == JsonLoads(frame)
       IN \/ "type" \notin DOMAIN data
          \/ /\ data["type"] = "file_chunk"
             /\ \/ ~(ChunkKeys \subseteq DOMAIN data)
                \/ ~B64Valid(data["chunk_data"])
                \/ /\ ~DictHas(active_transfers, data["transfer_id"])
                   /\ "file_size" \notin DOMAIN data
          \/ /\ data["type"] # "file_chunk"
             /\ "content" \notin DOMAIN data

\* handle_client, lines 131-132: a connection from client_ip is accepted.
AcceptClientWithin(limit, client_ip) ==
    /\ server \in {"serving", "stop_returned"}
    /\ Len(inbound) < limit
    /\ inbound' = Append(inbound, [ip |-> client_ip, st |-> "open"])
    /\ clients' = DictSet(clients, client_ip, Len(inbound) + 1)
    /\ UNCHANGED <<active_transfers, written, message_received>>
    /\ UNCHANGED <<loop_open, chat, status_bar, notified, frames_read, last_frame>>
    /\ UNCHANGED <<senderVars, poolVars, discVars, sessVars, appVars>>

AcceptClient(client_ip) == AcceptClientWithin(MaxAccepts, client_ip)

\* The file_chunk frames of two transfers: the only chunk of transfer t1 and the
\* chunks of a transfer t2 of SessionTotal chunks, as a peer builds them; and
\* file_chunk frames handle_file_chunk cannot take: one with no chunk_data
\* member, one whose chunk_data is no base64 text (three characters).
OtherTransferId == "t2"
IsolationFrames ==
    {JsonDumps(PoolEnvelope(0, 1))}
        \cup {JsonDumps(DictSet(PoolEnvelope(i, SessionTotal), "transfer_id", OtherTransferId)) :
                 i \in 0..(SessionTotal - 1)}
        \cup {JsonDumps(SelectSeq(PoolEnvelope(0, 1), LAMBDA p : p[1] # "chunk_data")),
              JsonDumps(DictSet(PoolEnvelope(0, 1), "chunk_data", <<1, 2, 3>>))}

\* handle_client, lines 135-149: one iteration of the read loop of inbound
\* connection h.  An exception other than ConnectionClosed leaves the loop
\* through the finally clause and ends the coroutine.
ServerRead(h, frame) ==
    /\ h \in DOMAIN inbound
    /\ inbound[h].st = "open"
    /\ frames_read < MaxFrames
    /\ \E io_ok \in BOOLEAN : HandleClientFrame(inbound[h].ip, frame, io_ok)
    /\ inbound' = IF HandlerRaises(frame)
                  THEN [inbound EXCEPT ![h].st = "ended"]
                  ELSE inbound
    /\ frames_read' = frames_read + 1
    /\ last_frame' = [side |-> "server", conn |-> h, ip |-> inbound[h].ip,
                      frame |-> frame,
                      registered |-> DictHas(clients, inbound[h].ip),
                      events |-> Len(message_received), chats |-> Len(chat)]
    /\ UNCHANGED <<loop_open, chat, status_bar, notified>>
    /\ UNCHANGED <<senderVars, poolVars, discVars, sessVars, appVars>>

\* The peer, or the network, closes inbound connection h.
InboundCloses(h) ==
    /\ h \in DOMAIN inbound
    /\ inbound[h].st = "open"
    /\ inbound' = [inbound EXCEPT ![h].st = "closed"]
    /\ UNCHANGED <<loop_open, chat, status_bar, notified, frames_read, last_frame>>
    /\ UNCHANGED <<senderVars, recvVars, poolVars, discVars, sessVars, appVars>>

\* handle_client, lines 145-149: the read loop finds the connection closed.
ServerClosed(h) ==
    /\ h \in DOMAIN inbound
    /\ inbound[h].st = "closed"
    /\ inbound' = [inbound EXCEPT ![h].st = "ended"]
    /\ clients' = DictDel(clients, inbound[h].ip)
    /\ UNCHANGED <<active_transfers, written, message_received>>
    /\ UNCHANGED <<loop_open, chat, status_bar, notified, frames_read, last_frame>>
    /\ UNCHANGED <<senderVars, poolVars, discVars, sessVars, appVars>>

\* The peers shown in the peer list widget, and get_peer_username (main.py,
\* lines 363-369).
PeerList == << <<"10.0.0.2", "bob">> >>
GetPeerUsername(peer_ip) ==
    IF DictHas(PeerList, peer_ip) THEN DictGet(PeerList, peer_ip) ELSE "Unknown"

\* What listen_to_peer passes to chat_widget.add_message for the envelope `data`
\* (lines 292-346), or <<>> where it passes nothing.  The text passed is the
\* sequence of the strings it is put together from.  A missing key raises
\* KeyError inside the inner try, which lines 350-351 swallow.
ChatEntry(peer_ip, data) ==
    LET sender_name == GetPeerUsername(peer_ip)
        timestamp == IF "timestamp" \in DOMAIN data THEN data["timestamp"] ELSE 0
        ty == data["type"]
    IN IF "type" \notin DOMAIN data THEN <<>>
       ELSE IF ty \notin {"text", "file", "image", "file_completed", "file_error"}
       THEN <<>>
       ELSE IF "content" \notin DOMAIN data THEN <<>>
       ELSE IF ty \in {"text", "file", "image"}
       THEN << <<sender_name, <<data["content"]>>, ty, timestamp>> >>
       ELSE IF ty = "file_completed"
       THEN << <<sender_name, <<"File received: ", data["content"]>>, "file", timestamp>> >>
       ELSE << <<"System", <<"File transfer error: ", data["content"]>>, "text",
                 timestamp>> >>

\* listen_to_peer, lines 286-351: one iteration of the read loop of the task t,
\* which runs only while the event loop it was created on does.
ListenToPeerFrame(t, frame) ==
    /\ t \in loop_open
    /\ t.task = "reading"
    /\ t.conn \in conn_open
    /\ frames_read < MaxFrames
    /\ chat' = IF frame.ok THEN chat \o ChatEntry(t.peer_ip, JsonLoads(frame)) ELSE chat
    /\ frames_read' = frames_read + 1
    /\ last_frame' = [side |-> "client", conn |-> t.conn, ip |-> t.peer_ip,
                      frame |-> frame,
                      registered |-> DictHas(websocket_clients, t.peer_ip),
                      events |-> Len(message_received), chats |-> Len(chat)]
    /\ UNCHANGED <<inbound, loop_open, status_bar, notified>>
    /\ UNCHANGED <<senderVars, recvVars, poolVars, discVars, sessVars, appVars>>

\* listen_to_peer, lines 353-361: the read loop finds the connection closed.
ListenToPeerClosed(t) ==
    /\ t \in loop_open
    /\ t.task = "reading"
    /\ t.conn \notin conn_open
    /\ websocket_clients' = DictDel(websocket_clients, t.peer_ip)
    /\ status_bar' = <<"Disconnected from", t.peer_ip>>
    /\ notified' = notified \cup {t.conn}
    /\ loop_open' = (loop_open \ {t}) \cup {[t EXCEPT !.task = "ended"]}
    /\ UNCHANGED <<conn_open, next_conn, send_threads, stream, submitted, send_results,
                   last_send>>
    /\ UNCHANGED <<inbound, chat, frames_read, last_frame>>
    /\ UNCHANGED <<senderVars, recvVars, poolVars, discVars, appVars>>

\* WebSocketServer.__init__ (lines 121-127) and MainWindow.__init__ (line 40):
\* no connection in either direction.
InitSession ==
    /\ clients = <<>>
    /\ active_transfers = <<>>
    /\ written = <<>>
    /\ message_received = <<>>
    /\ declared_total = SessionTotal
    /\ ingest_count = <<>>
    /\ stray_count = 0
    /\ out_of_order = FALSE
    /\ last_rx = NoRx
    /\ InitSessIdle
    /\ InitLoopIdle
    /\ InitAppIdle
    /\ InitSenderIdle
    /\ InitDiscIdle

\* The accepting side: the server and the peers that connect to it.
NextServer ==
    \/ \E client_ip \in PeerIps : AcceptClient(client_ip)
    \/ \E h \in DOMAIN inbound : \E frame \in SessionFrames : ServerRead(h, frame)
    \/ \E h \in DOMAIN inbound : InboundCloses(h)
    \/ \E h \in DOMAIN inbound : ServerClosed(h)

SpecServer == InitSession /\ [][NextServer]_vars

\* The accepting side with connections that overlap: a peer may connect again
\* while its earlier connection is still open.
MaxOverlapping == 2
OverlappingFrames == {Envelope("text", "hello"), NotJson}
NextOverlapping ==
    \/ \E client_ip \in PeerIps : AcceptClientWithin(MaxOverlapping, client_ip)
    \/ \E h \in DOMAIN inbound : \E frame \in OverlappingFrames : ServerRead(h, frame)
    \/ \E h \in DOMAIN inbound : InboundCloses(h)
    \/ \E h \in DOMAIN inbound : ServerClosed(h)

SpecOverlapping == InitSession /\ [][NextOverlapping]_vars

\* The initiating side: connect_to_peer_sync threads and their listen_to_peer
\* tasks.
NextClient ==
    \/ \E peer_ip \in PeerIps : ConnectToPeerOk(peer_ip)
    \/ \E t \in loop_open : ConnectSyncClose(t)
    \/ \E peer_ip \in PeerIps : ConnectToPeerFails(peer_ip)
    \/ \E c \in conn_open : ConnectionCloses(c)
    \/ \E t \in loop_open : \E frame \in SessionFrames : ListenToPeerFrame(t, frame)
    \/ \E t \in loop_open : ListenToPeerClosed(t)

SpecClient == InitSession /\ [][NextClient]_vars

\* WebSocketServer.stop, lines 235-252, called by closeEvent on the GUI thread
\* (main.py line 520).  self.running, which nothing reads, is cleared.  The
\* GUI thread has no running event loop: each asyncio.create_task raises and the
\* bare except swallows it, so no client.close() coroutine is ever run.  Then
\* self.clients is cleared.  The server's loop goes on running in its thread.
ServerStop ==
    /\ server = "serving"
    /\ server' = "stop_returned"
    /\ clients' = <<>>
    /\ UNCHANGED <<app, ws_port_error, ws_warned, ws_failed_at>>
    /\ UNCHANGED <<active_transfers, written, message_received>>
    /\ UNCHANGED <<senderVars, poolVars, discVars, sessVars, loopVars>>

\* line 248: the argument of create_task, self.server.close(), is evaluated
\* before create_task raises.  It is a call into the server object from a
\* thread that is not the one of its event loop; where it takes effect the
\* server stops accepting and closes the connections it holds.
ServerCloseTakesEffect ==
    /\ server = "stop_returned"
    /\ server' = "closing"
    /\ inbound' = [h \in DOMAIN inbound |->
                     IF inbound[h].st = "open"
                     THEN [inbound[h] EXCEPT !.st = "closed"] ELSE inbound[h]]
    /\ UNCHANGED <<app, ws_port_error, ws_warned, ws_failed_at>>
    /\ UNCHANGED <<loop_open, chat, status_bar, notified, frames_read, last_frame>>
    /\ UNCHANGED <<senderVars, recvVars, poolVars, discVars, sessVars>>

\* start_server, line 213: wait_closed returns once the server has closed and
\* its handlers have ended; run() then returns (lines 228-233).
ServerWaitClosed ==
    /\ server = "closing"
    /\ \A h \in DOMAIN inbound : inbound[h].st = "ended"
    /\ server' = "stopped"
    /\ UNCHANGED <<app, ws_port_error, ws_warned, ws_failed_at>>
    /\ UNCHANGED <<senderVars, recvVars, poolVars, discVars, sessVars, loopVars>>

\* closeEvent, main.py lines 522-525: the server thread has not finished within
\* two seconds and is terminated, its coroutines with it.
ServerTerminate ==
    /\ server \in {"stop_returned", "closing"}
    /\ server' = "stopped"
    /\ inbound' = [h \in DOMAIN inbound |->
                     IF inbound[h].st = "ended"
                     THEN inbound[h] ELSE [inbound[h] EXCEPT !.st = "terminated"]]
    /\ UNCHANGED <<app, ws_port_error, ws_warned, ws_failed_at>>
    /\ UNCHANGED <<loop_open, chat, status_bar, notified, frames_read, last_frame>>
    /\ UNCHANGED <<senderVars, recvVars, poolVars, discVars, sessVars>>

\* The server, the peers that connect to it, and the closing of the window.
NextShutdown ==
    \/ \E client_ip \in PeerIps : AcceptClient(client_ip)
    \/ \E h \in DOMAIN inbound : \E frame \in SessionFrames : ServerRead(h, frame)
    \/ \E h \in DOMAIN inbound : InboundCloses(h)
    \/ \E h \in DOMAIN inbound : ServerClosed(h)
    \/ ServerStop
    \/ ServerCloseTakesEffect
    \/ ServerWaitClosed
    \/ ServerTerminate

\* The GUI thread goes on with closeEvent after stop() has returned, and the
\* server's loop, while it runs, resumes the coroutine of a closed connection.
SpecShutdown ==
    /\ InitSession
    /\ [][NextShutdown]_vars
    /\ WF_vars(ServerTerminate)
    /\ WF_vars(ServerWaitClosed)
    /\ WF_vars(\E h \in DOMAIN inbound : ServerClosed(h))

\* The server fed with the file_chunk frames of two transfers, some of which it
\* cannot decode, and with assemblies that may fail.
NextIsolation ==
    \/ \E client_ip \in PeerIps : AcceptClient(client_ip)
    \/ \E h \in DOMAIN inbound : \E frame \in IsolationFrames : ServerRead(h, frame)
    \/ \E h \in DOMAIN inbound : InboundCloses(h)
    \/ \E h \in DOMAIN inbound : ServerClosed(h)

SpecIsolation == InitSession /\ [][NextIsolation]_vars

\* The coroutine of an inbound connection is resumed when its stream closes: the
\* server's event loop runs for as long as the server does.
SpecServerFair ==
    SpecServer /\ WF_vars(\E h \in DOMAIN inbound : ServerClosed(h))

\* A connect thread goes on to close its loop, and a listen_to_peer task whose
\* loop still runs is resumed when its stream closes.
SpecClientFair ==
    /\ SpecClient
    /\ WF_vars(\E t \in loop_open : ConnectSyncClose(t))
    /\ WF_vars(\E t \in loop_open : ListenToPeerClosed(t))

-----------------------------------------------------------------------------
(* MainWindow.start_services and the handlers of the two port_error signals *)

\* start_server, lines 209-214: websockets.serve binds the port
ServerBindOk ==
    /\ server = "starting"
    /\ server' = "serving"
    /\ UNCHANGED <<app, ws_port_error, ws_warned, ws_failed_at>>
    /\ UNCHANGED <<senderVars, recvVars, poolVars, discVars, sessVars, loopVars>>

\* start_server, lines 215-221: the port is taken
ServerBindFails ==
    /\ server = "starting"
    /\ server' = "failed"
    /\ ws_port_error' = Append(ws_port_error, "Port 8081 is already in use")
    /\ ws_failed_at' = [failed |-> TRUE, peers |-> Len(peer_found),
                        broadcasts |-> broadcasts, conns |-> next_conn,
                        sends |-> submitted]
    /\ UNCHANGED <<app, ws_warned>>
    /\ UNCHANGED <<senderVars, recvVars, poolVars, discVars, sessVars, loopVars>>

\* A variant of handle_websocket_port_error that ends as handle_port_error
\* does, by closing the main window.
HandleWebsocketPortErrorCloses ==
    /\ app = "running"
    /\ Len(ws_port_error) > 0
    /\ ~ws_warned
    /\ ws_warned' = TRUE
    /\ app' = "closed"
    /\ running' = FALSE
    /\ UNCHANGED <<server, ws_port_error, ws_failed_at, status_bar>>
    /\ UNCHANGED <<current_user_uuid, listener, discovered_peers, peer_found,
                   port_error, rx_count, last_dgram, announced, broadcaster, broadcasts,
                   sock_errors, sock>>
    /\ UNCHANGED <<inbound, loop_open, chat, notified, frames_read, last_frame>>
    /\ UNCHANGED <<senderVars, recvVars, poolVars, sessVars>>

\* handle_websocket_port_error, main.py lines 456-467: a warning is shown and
\* the status bar updated; nothing is stopped.
HandleWebsocketPortError ==
    /\ app \in {"running", "port_dialog"}
    /\ Len(ws_port_error) > 0
    /\ ~ws_warned
    /\ ws_warned' = TRUE
    /\ status_bar' = <<"Peer discovery active - WebSocket server unavailable", "">>
    /\ running' = running
    /\ UNCHANGED <<app, server, ws_port_error, ws_failed_at>>
    /\ UNCHANGED <<current_user_uuid, listener, discovered_peers, peer_found,
                   port_error, rx_count, last_dgram, announced, broadcaster, broadcasts,
                   sock_errors, sock>>
    /\ UNCHANGED <<inbound, loop_open, chat, notified, frames_read, last_frame>>
    /\ UNCHANGED <<senderVars, recvVars, poolVars, sessVars>>

\* handle_port_error, main.py lines 443-451: the critical message box is shown;
\* exec_() runs a nested event loop until the user dismisses it.
HandlePortErrorOpen ==
    /\ app = "running"
    /\ Len(port_error) > 0
    /\ app' = "port_dialog"
    /\ UNCHANGED <<server, ws_port_error, ws_warned, ws_failed_at>>
    /\ UNCHANGED <<senderVars, recvVars, poolVars, discVars, sessVars, loopVars>>

\* handle_port_error, line 454, and closeEvent, lines 503-533: the window is
\* closed; discovery is told to stop, the server thread is stopped or
\* terminated together with the coroutines of its connections, and
\* WebSocketServer.stop clears self.clients when the server had been set up.
HandlePortErrorClose ==
    /\ app = "port_dialog"
    /\ app' = "closed"
    /\ running' = FALSE
    /\ server' = IF server = "failed" THEN "failed" ELSE "stopped"
    /\ clients' = IF server = "serving" THEN <<>> ELSE clients
    /\ inbound' = [h \in DOMAIN inbound |-> [inbound[h] EXCEPT !.st = "ended"]]
    /\ UNCHANGED <<ws_port_error, ws_warned, ws_failed_at>>
    /\ UNCHANGED <<active_transfers, written, message_received>>
    /\ UNCHANGED <<current_user_uuid, listener, discovered_peers, peer_found,
                   port_error, rx_count, last_dgram, announced, broadcaster, broadcasts,
                   sock_errors, sock>>
    /\ UNCHANGED <<loop_open, chat, status_bar, notified, frames_read, last_frame>>
    /\ UNCHANGED <<senderVars, poolVars, sessVars>>

\* MainWindow.__init__, lines 40-47: start_services (lines 216-232) has started
\* the discovery thread and, unconditionally, the WebSocket server thread.
InitStartup ==
    /\ current_user_uuid = "aaa"
    /\ running = TRUE
    /\ listener = "bind"
    /\ discovered_peers = <<>>
    /\ peer_found = <<>>
    /\ port_error = <<>>
    /\ rx_count = 0
    /\ last_dgram = NoDgram
    /\ announced = {}
    /\ broadcaster = "sending"
    /\ broadcasts = 0
    /\ sock_errors = {}
    /\ sock = SocksOpen
    /\ app = "running"
    /\ server = "starting"
    /\ ws_port_error = <<>>
    /\ ws_warned = FALSE
    /\ ws_failed_at = NoFailure
    /\ clients = <<>>
    /\ active_transfers = <<>>
    /\ written = <<>>
    /\ message_received = <<>>
    /\ InitPoolIdle
    /\ InitSessIdle
    /\ InitLoopIdle
    /\ InitSenderIdle

\* The peer of this specification: bob at 10.0.0.2.
NextStartup ==
    \/ ListenBindOk
    \/ ListenBindFails
    \/ ListenReceive(Announcement("bob", "bbb"), "10.0.0.2")
    \/ BroadcastSend
    \/ BroadcastLoopExit
    \/ ServerBindOk
    \/ ServerBindFails
    \/ HandleWebsocketPortError
    \/ HandlePortErrorOpen
    \/ HandlePortErrorClose
    \/ AcceptClient("10.0.0.2")
    \/ ConnectToPeerOk("10.0.0.2")
    \/ SendMessageToPeer("10.0.0.2", "text", "hello")
    \/ \E t \in send_threads : SendAsync(t)

SpecStartup == InitStartup /\ [][NextStartup]_vars

-----------------------------------------------------------------------------
(* Two instances end to end: B discovers A, connects to A's server and sends *)

\* In SpecEndToEnd the discovery and the outbound sessions are those of
\* instance B (uuid "bbb"), the server and its inbound sessions those of
\* instance A (alice, uuid "aaa").  The connection B makes as number c is the
\* one A's server accepts as inbound connection c, and stream[c] holds the
\* frames B has handed to it that A has not read yet.
AIp == "10.0.0.2"
BIp == "10.0.0.1"

\* B's listener receives A's announcement; the model follows A's datagrams up
\* to the one that makes A known to B.
EndToEndAnnounce ==
    /\ peer_found = <<>>
    /\ ListenReceive(Announcement("alice", "aaa"), AIp)

\* A's server accepts the connection B is making (handle_client, lines 131-132),
\* B having found A: on_peer_selected is called for a peer of the peer list.
EndToEndAccept ==
    /\ \E i \in DOMAIN peer_found : peer_found[i][1] = AIp
    /\ Len(inbound) + 1 = next_conn
    /\ AcceptClient(BIp)

\* B's connect_to_peer returns from websockets.connect (main.py, lines 265-274).
EndToEndConnect ==
    /\ Len(inbound) = next_conn
    /\ ConnectToPeerOk(AIp)

\* B calls send_message_to_peer for A once connect_to_peer has registered the
\* session (the order of the scenario).
EndToEndSend ==
    /\ DictHas(websocket_clients, AIp)
    /\ SendMessageToPeer(AIp, "text", "hi")

\* A variant of handle_client's loop body that takes the frame off the stream
\* and drops it.
ServerReadStreamDrops(h) ==
    /\ h \in DOMAIN inbound
    /\ inbound[h].st = "open"
    /\ DictHas(stream, h)
    /\ DictGet(stream, h) # <<>>
    /\ stream' = DictSet(stream, h, Tail(DictGet(stream, h)))
    /\ frames_read' = frames_read + 1
    /\ last_frame' = [side |-> "server", conn |-> h, ip |-> inbound[h].ip,
                      frame |-> Head(DictGet(stream, h)),
                      registered |-> DictHas(clients, inbound[h].ip),
                      events |-> Len(message_received), chats |-> Len(chat)]
    /\ UNCHANGED <<websocket_clients, conn_open, next_conn, send_threads, submitted,
                   send_results, last_send>>
    /\ UNCHANGED <<inbound, loop_open, chat, status_bar, notified>>
    /\ UNCHANGED <<senderVars, recvVars, poolVars, discVars, appVars>>

\* handle_client, lines 135-149: one iteration of the read loop of A's inbound
\* connection h, on the next frame B has sent on it.
ServerReadStream(h) ==
    /\ h \in DOMAIN inbound
    /\ inbound[h].st = "open"
    /\ DictHas(stream, h)
    /\ DictGet(stream, h) # <<>>
    /\ LET frame == Head(DictGet(stream, h))
       IN /\ \E io_ok \in BOOLEAN : HandleClientFrame(inbound[h].ip, frame, io_ok)
          /\ inbound' = IF HandlerRaises(frame)
                        THEN [inbound EXCEPT ![h].st = "ended"]
                        ELSE inbound
          /\ last_frame' = [side |-> "server", conn |-> h, ip |-> inbound[h].ip,
                            frame |-> frame,
                            registered |-> DictHas(clients, inbound[h].ip),
                            events |-> Len(message_received), chats |-> Len(chat)]
    /\ stream' = DictSet(stream, h, Tail(DictGet(stream, h)))
    /\ frames_read' = frames_read + 1
    /\ UNCHANGED <<websocket_clients, conn_open, next_conn, send_threads, submitted,
                   send_results, last_send>>
    /\ UNCHANGED <<loop_open, chat, status_bar, notified>>
    /\ UNCHANGED <<senderVars, poolVars, discVars, appVars>>

\* PeerDiscovery.__init__ and MainWindow.__init__ of B, WebSocketServer.__init__
\* of A.
InitEndToEnd ==
    /\ current_user_uuid = "bbb"
    /\ running = TRUE
    /\ listener = "bind"
    /\ discovered_peers = <<>>
    /\ peer_found = <<>>
    /\ port_error = <<>>
    /\ rx_count = 0
    /\ last_dgram = NoDgram
    /\ announced = {}
    /\ broadcaster = "sending"
    /\ broadcasts = 0
    /\ sock_errors = {}
    /\ sock = SocksOpen
    /\ clients = <<>>
    /\ active_transfers = <<>>
    /\ written = <<>>
    /\ message_received = <<>>
    /\ InitPoolIdle
    /\ InitSessIdle
    /\ InitLoopIdle
    /\ InitAppIdle
    /\ InitSenderIdle

NextEndToEnd ==
    \/ ListenBindOk
    \/ EndToEndAnnounce
    \/ EndToEndAccept
    \/ EndToEndConnect
    \/ \E t \in loop_open : ConnectSyncClose(t)
    \/ EndToEndSend
    \/ \E t \in send_threads : SendAsync(t)
    \/ \E h \in DOMAIN inbound : ServerReadStream(h)
    \/ \E c \in conn_open : ConnectionCloses(c)
    \/ \E h \in DOMAIN inbound : InboundCloses(h)
    \/ \E h \in DOMAIN inbound : ServerClosed(h)

\* The sending threads run, and the coroutine of an inbound connection is
\* resumed when a frame has arrived on it.
SpecEndToEnd ==
    /\ InitEndToEnd
    /\ [][NextEndToEnd]_vars
    /\ WF_vars(\E t \in send_threads : SendAsync(t))
    /\ WF_vars(\E h \in DOMAIN inbound : ServerReadStream(h))

-----------------------------------------------------------------------------
(* Properties of the file transfer, checked under SpecTransfer *)

\* The least n with n * d >= a.
CeilDiv(a, d) == CHOOSE n \in 0..a : n * d >= a /\ (n = 0 \/ (n - 1) * d < a)

Succeeded == \E i \in DOMAIN transfer_completed : transfer_completed[i][1]
FileErrors == {i \in DOMAIN message_received : message_received[i][2] = "file_error"}

\* C2 (as stated): for a source file of any size, once the worker has emitted its
\* successful terminal event and the receiver has ingested every chunk sent
\* (assembly meeting no I/O failure), the receiver has assembled exactly one
\* file, of the source's length and content.
C2_RoundTripAnySize ==
    (pc = "done" /\ Succeeded /\ wire = <<>> /\ FileErrors = {})
        => /\ Len(written) = 1
           /\ Len(written[1].bytes) = file_size
           /\ written[1].bytes = FileContent(file_seed, file_size)

\* The same for a source file of at least one byte; it holds, in particular for
\* file_size = 2 * chunk_size + r with 0 < r < chunk_size (the shape of 20,000
\* bytes in chunks of 8192: two full chunks and a partial one).
RoundTripNonEmpty ==
    (file_size > 0 /\ pc = "done" /\ Succeeded /\ wire = <<>> /\ FileErrors = {})
        => /\ Len(written) = 1
           /\ Len(written[1].bytes) = file_size
           /\ written[1].bytes = FileContent(file_seed, file_size)

\* C3: the file_chunk envelopes the worker sends carry chunk_index 0, 1, 2, ...
\* in this order, each the same total_chunks = ceil(file_size / chunk_size) and
\* the same file_size, and every chunk but the last of the file carries exactly
\* chunk_size bytes (the last one carries the rest).
C3_ChunksAscending ==
    \A i \in DOMAIN sent_log :
        /\ sent_log[i].chunk_index = i - 1
        /\ sent_log[i].total_chunks = CeilDiv(file_size, chunk_size)
        /\ sent_log[i].file_size = file_size
        /\ i <= CeilDiv(file_size, chunk_size)
        /\ sent_log[i].nbytes =
              IF i < CeilDiv(file_size, chunk_size)
              THEN chunk_size
              ELSE file_size - (i - 1) * chunk_size
C3_Witness ==
    /\ pc = "done"
    /\ Succeeded
    /\ Len(sent_log) = 3
    /\ sent_log[3].nbytes < chunk_size

\* cancel() was called while the send was in progress: the worker had started
\* and had not yet left its loop (lines 39-79).
InProgressPcs == {"start", "loop", "pause_chk", "cancel_chk", "send", "account"}
CancelledInProgress == cancel_at.called /\ cancel_at.pc \in InProgressPcs

\* C6: after cancel() on a send in progress, at most one more chunk is handed to
\* the websocket (the one being processed), there is never more than one
\* terminal event, and when the worker has ended there is exactly one, with
\* success = false.
C6_CancelStops ==
    CancelledInProgress =>
        /\ Len(sent_log) - cancel_at.nsent <= 1
        /\ Len(transfer_completed) <= 1
        /\ \A i \in DOMAIN transfer_completed : ~transfer_completed[i][1]
        /\ pc = "done" => Len(transfer_completed) = 1
C6_Witness ==
    /\ CancelledInProgress
    /\ cancel_at.pc = "send"
    /\ cancel_at.nsent = 1
    /\ Len(sent_log) = 2
    /\ file_size > 2 * chunk_size
    /\ pc = "done"
    /\ transfer_completed = << <<FALSE, "Transfer cancelled">> >>

\* C7: whatever pause() and resume() calls interleave with the worker, the chunk
\* indices sent are 0, 1, ..., k-1 in this order, bytes_sent accounts for exactly
\* the chunks sent (so the next chunk is the first unsent one), and a successful
\* end has sent all of 0 .. N-1.
RECURSIVE SumBytes(_, _)
SumBytes(log, i) == IF i = 0 THEN 0 ELSE log[i].nbytes + SumBytes(log, i - 1)
C7_PauseResumeKeepsOrder ==
    /\ \A i \in DOMAIN sent_log : sent_log[i].chunk_index = i - 1
    /\ bytes_sent + (IF pc = "account" THEN chunk_len ELSE 0)
          = SumBytes(sent_log, Len(sent_log))
    /\ pc = "send" => ChunkIndex(bytes_sent, chunk_size) = Len(sent_log)
    /\ Succeeded => Len(sent_log) = CeilDiv(file_size, chunk_size)
C7_Witness ==
    /\ pause_calls >= 1
    /\ resume_calls >= 1
    /\ slept
    /\ pc = "done"
    /\ Succeeded
    /\ Len(sent_log) = 3

\* C29: from the pause_transfer call that paused the transfer, and for as long
\* as it is neither resumed nor cancelled, the worker transmits at most one more
\* chunk, and that only if it had passed its pause check when pause was called
\* (the chunk being processed); bytes_sent grows by one chunk at most.
C29_PauseSuspendsAtChunkBoundary ==
    (paused /\ ~cancelled) =>
        /\ Len(sent_log) <= pause_at.nsent + 1
        /\ Len(sent_log) = pause_at.nsent + 1 => pause_at.pc \in {"cancel_chk", "send"}
        /\ bytes_sent <= pause_at.bytes + chunk_size
        /\ bytes_sent > pause_at.bytes =>
              pause_at.pc \in {"cancel_chk", "send", "account"}
\* Paused while a chunk was being processed: that chunk has been sent and
\* accounted, and the worker sleeps in its pause loop with the file unfinished.
C29_Witness ==
    /\ paused /\ ~cancelled
    /\ pause_at.pc = "send"
    /\ Len(sent_log) = pause_at.nsent + 1
    /\ bytes_sent = pause_at.bytes + chunk_size
    /\ bytes_sent < file_size
    /\ pc = "pause_chk"
    /\ slept

\* C30: once cancel_transfer has been called, wherever the worker stands and also
\* when it is paused and never resumed, the worker eventually has left its loops
\* and emitted its one terminal event; it hands at most one more chunk to the
\* connection after the call.
C30_CancelTerminates ==
    /\ cancelled ~> (pc = "done" /\ Len(transfer_completed) = 1)
    /\ [](cancel_at.called => Len(sent_log) <= cancel_at.nsent + 1)
\* Cancelled while asleep in the pause loop and never resumed: the worker has
\* ended with the cancelled event.
C30_Witness ==
    /\ cancel_at.called
    /\ cancel_at.pc = "pause_chk"
    /\ slept
    /\ paused
    /\ resume_calls = 0
    /\ pc = "done"
    /\ Len(sent_log) = cancel_at.nsent
    /\ bytes_sent < file_size
    /\ transfer_completed = << <<FALSE, "Transfer cancelled">> >>

\* C31 (as stated): the terminal event agrees with what was transmitted.  The
\* success event is emitted only when bytes_sent = file_size and every chunk
\* 0 .. total_chunks-1 has been handed to the connection; 'Transfer cancelled'
\* only when at least one chunk has not been.
C31_TerminalAgrees ==
    \A i \in DOMAIN transfer_completed :
        /\ transfer_completed[i][1] =>
              /\ bytes_sent = file_size
              /\ Len(sent_log) = CeilDiv(file_size, chunk_size)
        /\ transfer_completed[i] = <<FALSE, "Transfer cancelled">> =>
              Len(sent_log) < CeilDiv(file_size, chunk_size)

\* The success half: it holds for a source file that keeps its length.
SuccessMeansAllSent ==
    Succeeded => /\ bytes_sent = file_size
                 /\ Len(sent_log) = CeilDiv(file_size, chunk_size)

\* C32: in every state of the sender worker 0 <= bytes_sent <= file_size and
\* no step lowers bytes_sent; every progress event carries the total size of
\* the chunks transmitted before it was emitted; and each chunk is sent with the
\* number of chunks transmitted before it as its chunk_index.
BytesSentInRange == 0 <= bytes_sent /\ bytes_sent <= file_size
ProgressIsBytesTransmitted ==
    \A k \in DOMAIN progress_updated :
        progress_updated[k][1] = SumBytes(sent_log, k - 1)
NextIndexIsChunksSent ==
    /\ \A i \in DOMAIN sent_log : sent_log[i].chunk_index = i - 1
    /\ (pc = "send" /\ bytes_sent < FileLength(file_seed, file_size)) =>
           ChunkIndex(bytes_sent, chunk_size) = Len(sent_log)
C32_BytesSentAccounting ==
    /\ [](BytesSentInRange /\ ProgressIsBytesTransmitted /\ NextIndexIsChunksSent)
    /\ [][bytes_sent' >= bytes_sent]_vars
\* A transfer of three chunks, paused and resumed on its way, has reported
\* 0, 5, 10 and 12 bytes.
C32_Witness ==
    /\ pc = "done"
    /\ file_size = MaxFileSize
    /\ bytes_sent = file_size
    /\ Len(sent_log) = 3
    /\ Len(progress_updated) = 4
    /\ progress_updated[4][1] = MaxFileSize
    /\ resume_calls > 0

\* C20: a run of the worker emits at most one terminal event and has emitted
\* exactly one when it has ended, by completion, cancellation or exception; by
\* then one progress event, with the bytes sent so far, has followed each chunk
\* transmitted (after the opening one).  A run ends unless it is left paused
\* for ever.
C20_OneTerminalEvent ==
    /\ [](/\ Len(transfer_completed) <= 1
          /\ (Len(transfer_completed) = 1 <=> pc = "done")
          /\ Len(progress_updated) =
                (IF pc = "start" THEN 0 ELSE 1) + Len(sent_log)
                   - (IF pc = "account" THEN 1 ELSE 0)
          /\ \A k \in DOMAIN progress_updated :
                progress_updated[k] = <<SumBytes(sent_log, k - 1), file_size>>)
    /\ (<>(pc = "done") \/ <>[](paused /\ ~cancelled))
\* A run that has sent two chunks and a third send of which has raised.
C20_Witness ==
    /\ pc = "done"
    /\ transfer_completed = << <<FALSE, "Transfer failed">> >>
    /\ Len(sent_log) = 2
    /\ Len(progress_updated) = 3
    /\ pause_calls > 0

-----------------------------------------------------------------------------
(* Properties of the receiving side, checked under SpecRecv *)

\* The chunks 0 .. n-1 of the transfer, one after the other.
RECURSIVE AscendingBytes(_)
AscendingBytes(n) == IF n = 0 THEN <<>> ELSE AscendingBytes(n - 1) \o PoolData(n - 1)

OnlyTransferChunksOnceEach ==
    /\ stray_count = 0
    /\ \A i \in DOMAIN ingest_count : ingest_count[i] <= 1
AllIngested == \A i \in DOMAIN ingest_count : ingest_count[i] >= 1

\* C1: when the N chunks of a transfer (indices 0 .. N-1, one each) are ingested,
\* in whatever order, the file assembled is the one ascending order gives: the
\* chunks concatenated by index.  Nothing is written before the last of them is
\* in, and then the one file is written (unless writing it fails).
C1_OrderIndependent ==
    OnlyTransferChunksOnceEach =>
        /\ \A i \in DOMAIN written : written[i].bytes = AscendingBytes(declared_total)
        /\ Len(written) = (IF AllIngested /\ FileErrors = {} THEN 1 ELSE 0)
        /\ AllIngested => active_transfers = <<>>
C1_Witness ==
    /\ OnlyTransferChunksOnceEach
    /\ AllIngested
    /\ declared_total = 3
    /\ out_of_order
    /\ Len(written) = 1
    /\ written[1].bytes = AscendingBytes(3)

\* C8 (as stated): ingesting again an envelope already ingested into the Transfer
\* record, its index being stored, leaves the chunk map as it was and does not
\* trigger assembly: no file is written, no event is emitted and the record stays.
C8_RedeliveryIdempotent ==
    [][(last_rx'.n = last_rx.n + 1 /\ last_rx'.redelivery)
          => UNCHANGED <<active_transfers, written, message_received>>]_vars

\* With no frame but chunks of the transfer ingested, a repeated chunk changes
\* nothing.
RedeliveryIdempotentWithinTransfer ==
    [][(last_rx'.n = last_rx.n + 1 /\ last_rx'.redelivery /\ stray_count' = 0)
          => UNCHANGED <<active_transfers, written, message_received>>]_vars

\* The chunk map of the Transfer record once the chunk idx is stored (lines
\* 161-171), and the condition of line 174 on it.
ChunksAfter(idx) ==
    DictSet(IF DictHas(active_transfers, TransferId)
            THEN DictGet(active_transfers, TransferId).chunks ELSE <<>>,
            idx, PoolData(idx))
AssemblyTriggered(idx, total) == DictLen(ChunksAfter(idx)) = total
\* transfer['sender_ip']: the peer whose chunk created the record.
SourcePeer ==
    IF DictHas(active_transfers, TransferId)
    THEN DictGet(active_transfers, TransferId).sender_ip ELSE SenderIp

RecordedTotal(total) ==
    IF DictHas(active_transfers, TransferId)
    THEN DictGet(active_transfers, TransferId).total_chunks ELSE total
\* The step ran complete_file_transfer: one event more and no record left.
AssemblyRan ==
    /\ Len(message_received') = Len(message_received) + 1
    /\ ~DictHas(active_transfers', TransferId)

\* C33 (as stated): the total_chunks recorded by the first chunk governs
\* completion.  Whatever total_chunks the envelope at hand carries, storing its
\* chunk does not trigger assembly while the chunk map holds fewer chunks than
\* the recorded number, and does when it then holds that number.
C33_RecordedTotalGoverns ==
    [][\A idx \in 0..MaxTotal : \A total \in 0..(MaxTotal + 1) :
         RecvChunk(idx, total) =>
            /\ AssemblyRan => DictLen(ChunksAfter(idx)) >= RecordedTotal(total)
            /\ DictLen(ChunksAfter(idx)) = RecordedTotal(total) => AssemblyRan]_vars

\* It does while every envelope carries the total_chunks the first one carried.
SameTotalGoverns ==
    [][\A idx \in 0..MaxTotal : \A total \in 0..(MaxTotal + 1) :
         (RecvChunk(idx, total) /\ total = RecordedTotal(total)) =>
            (AssemblyRan <=> DictLen(ChunksAfter(idx)) = RecordedTotal(total))]_vars

\* file_completed and file_error events emitted so far.
TerminalEvents ==
    {i \in DOMAIN message_received :
        message_received[i][2] \in {"file_completed", "file_error"}}

\* C34 (as stated): once every chunk 0 .. N-1 of the transfer has been delivered
\* at least once, in any order and with any repetitions, and nothing else has,
\* exactly one terminal event has been emitted for the transfer and no record
\* of it is held.
C34_OneTerminalEventPerTransfer ==
    (stray_count = 0 /\ AllIngested) =>
        /\ Cardinality(TerminalEvents) = 1
        /\ ~DictHas(active_transfers, TransferId)

\* What holds of such a sequence: the transfer has come to a terminal event,
\* and chunks repeated before that event do not add one.
AtLeastOneTerminalEvent ==
    (stray_count = 0 /\ AllIngested) => Cardinality(TerminalEvents) >= 1
NoTerminalEventBeforeAllIngested ==
    (stray_count = 0 /\ ~AllIngested) => TerminalEvents = {}

\* The content of the file downloads_dir/filename: what the last
\* open(file_path, 'wb') of that path has written (lines 189-194).
RECURSIVE FileOnDisk(_, _)
FileOnDisk(filename, n) ==
    IF n = 0 THEN <<>>
    ELSE IF written[n].filename = filename THEN written[n].bytes
    ELSE FileOnDisk(filename, n - 1)
\* Every file written is the source file of one of the transfers, under that
\* transfer's filename: no chunk of another transfer is in it.
AssemblesOwnChunksOnly ==
    \A i \in DOMAIN written :
        \E k \in DOMAIN ConcurrentIds :
            /\ written[i].bytes = ConcurrentFile(k)
            /\ written[i].filename = TransferFilename(k)
\* The Transfer records hold chunks of their own transfer only.
RecordsHoldOwnChunks ==
    \A k \in DOMAIN ConcurrentIds :
        DictHas(active_transfers, ConcurrentIds[k]) =>
            LET transfer == DictGet(active_transfers, ConcurrentIds[k])
            IN /\ transfer.filename = TransferFilename(k)
               /\ \A idx \in DictKeys(transfer.chunks) :
                     DictGet(transfer.chunks, idx) = ConcurrentData(k, idx)

\* C35 (as stated): transfers with distinct transfer ids do not interfere.
\* Each assembles from its own chunks only, and the file written for one is
\* still on disk as it was written whatever the others have written since,
\* also when they carry the same filename.
C35_TransfersDoNotInterfere ==
    /\ AssemblesOwnChunksOnly
    /\ RecordsHoldOwnChunks
    /\ \A i \in DOMAIN written :
          FileOnDisk(written[i].filename, Len(written)) = written[i].bytes

\* The file of the one transfer that has a filename of its own stays as written.
OwnFilenameKept ==
    \A i \in DOMAIN written :
        written[i].filename = OtherFilename =>
            FileOnDisk(OtherFilename, Len(written)) = written[i].bytes

\* C9 (as stated): a file is written, and file_completed emitted, only for a
\* Transfer whose chunk map holds every index 0 .. total_chunks-1.
C9_AssemblyNeedsEveryIndex ==
    /\ \A i \in DOMAIN written :
          \A k \in 0..(written[i].total_chunks - 1) : k \in written[i].indices
    /\ Len(written) =
          Cardinality({i \in DOMAIN message_received :
                          message_received[i][2] = "file_completed"})

-----------------------------------------------------------------------------
(* Properties of discovery, checked under SpecDiscovery *)

PeerFoundFor(u) == {i \in DOMAIN peer_found : peer_found[i][3] = u}

\* C4 (as stated): of a remote uuid that has announced itself, whatever addresses
\* its announcements came from, exactly one PeerFound has been emitted; of a
\* uuid that has not, none.
C4_OnePeerFoundPerUuid ==
    \A u \in Uuids :
        Cardinality(PeerFoundFor(u)) = (IF u \in announced THEN 1 ELSE 0)

\* What the listener does keep: one PeerFound per source address, emitted for
\* the first announcement of another instance that arrives from it.
OnePeerFoundPerAddress ==
    /\ \A i, j \in DOMAIN peer_found :
          peer_found[i][1] = peer_found[j][1] => i = j
    /\ DictKeys(discovered_peers) = {peer_found[i][1] : i \in DOMAIN peer_found}

\* C5: receiving an announcement that carries our own uuid emits no PeerFound
\* and leaves the registry of discovered peers as it was, whatever its source
\* address and username.
C5_SelfSuppressed ==
    [][(rx_count' = rx_count + 1 /\ last_dgram'.own)
          => UNCHANGED <<discovered_peers, peer_found>>]_vars
C5_Witness ==
    /\ last_dgram.own
    /\ rx_count = 2
    /\ Len(peer_found) = 1
    /\ peer_found[1][1] = last_dgram.ip
    /\ listener = "listening"

\* C13 (as stated): a datagram that is not JSON, or is JSON without the fields
\* expected, is ignored: while the service has not been stopped the listener
\* is still listening after it, so that a later announcement of a peer not
\* yet known emits its PeerFound.
C13_MalformedNotFatal ==
    (rx_count > 0 /\ last_dgram.malformed /\ running) => listener = "listening"

\* The one malformed datagram the listener does survive: an announcement with
\* no uuid, which line 91 reads as the uuid "unknown".
MissingUuidNotFatal ==
    (rx_count > 0 /\ last_dgram.uuid = "unknown" /\ running) => listener = "listening"

\* C14 (as stated): while the service has not been stopped, a socket error in
\* one recvfrom leaves the listener listening and a socket error in one sendto
\* leaves the broadcaster broadcasting.
C14_SocketErrorContinues ==
    running => /\ ("listen" \in sock_errors => listener = "listening")
               /\ ("broadcast" \in sock_errors => broadcaster = "sending")

-----------------------------------------------------------------------------
(* Properties of sending, checked under SpecSend *)

Timestamp(frame) == JsonLoads(frame)["timestamp"]

\* C10 (as stated): the envelopes handed to a session's transport stream are in
\* the order in which send was called for them.
C10_SessionFifo ==
    \A k \in DOMAIN stream :
        LET out == stream[k][2]
        IN \A i, j \in DOMAIN out :
              i < j => Timestamp(out[i]) < Timestamp(out[j])


\* C11 (as stated): a send_message_to_peer call returns True only if an open
\* session to the peer exists at the call, and a call made with no open session
\* returns False.
C11_SuccessOnlyIfOpenSession ==
    Len(send_results) > 0 => (last_send.result <=> last_send.open)

\* What send_message_to_peer does keep: a call for a peer with no entry in
\* websocket_clients returns False, starts no thread, transmits nothing and
\* leaves the map as it was; a call returns True exactly when the entry exists.
SendWithoutEntryFails ==
    [][Len(send_results') = Len(send_results) + 1
         => /\ last_send'.result <=> last_send'.registered
            /\ ~last_send'.registered
                 => UNCHANGED <<websocket_clients, send_threads, stream, conn_open>>]_vars

-----------------------------------------------------------------------------
(* Properties of the read loops, checked under SpecServer and SpecClient *)

\* C12 (as stated): a frame that is not JSON is dropped and the session it came
\* on stays in the active set, on the accepting and on the initiating side.
C12_UndecodableKeepsSession ==
    [][(frames_read' = frames_read + 1 /\ ~last_frame'.frame.ok
          /\ last_frame'.registered)
         => IF last_frame'.side = "server"
            THEN /\ DictHas(clients', last_frame'.ip)
                 /\ inbound'[last_frame'.conn].st = "open"
            ELSE /\ DictHas(websocket_clients', last_frame'.ip)
                 /\ loop_open' = loop_open]_vars

\* The initiating side does what C12 says: listen_to_peer drops the frame,
\* shows nothing in the chat, and its task goes on reading.
UndecodableKeepsOutboundSession ==
    [][(frames_read' = frames_read + 1 /\ last_frame'.side = "client"
          /\ ~last_frame'.frame.ok)
         => UNCHANGED <<websocket_clients, loop_open, chat, conn_open>>]_vars

\* C36 (as stated): the clients map holds an entry for the address of every
\* inbound connection whose handler is still reading it, also when another
\* connection from the same address has been accepted and has ended since.
C36_OpenConnectionHasEntry ==
    \A h \in DOMAIN inbound :
        inbound[h].st = "open" => DictHas(clients, inbound[h].ip)

\* It does for an address that has connected once only.
OnlyConnectionHasEntry ==
    \A h \in DOMAIN inbound :
        (/\ inbound[h].st = "open"
         /\ \A g \in DOMAIN inbound : inbound[g].ip = inbound[h].ip => g = h)
            => /\ DictHas(clients, inbound[h].ip)
               /\ DictGet(clients, inbound[h].ip) = h

\* The step is a connect_to_peer call that has failed (lines 276-281).
ConnectFailed ==
    /\ next_conn' = next_conn + 1
    /\ status_bar'[1] = "Failed to connect to"

\* C37 (as stated): a failed connection attempt to a peer changes nothing but
\* the failure notification: every session registered before it, the one to
\* that peer included, is registered after it, and no connection is closed.
C37_FailedConnectKeepsSessions ==
    [][ConnectFailed => UNCHANGED <<websocket_clients, conn_open, loop_open>>]_vars

\* The sessions of the other peers are kept, and no connection is closed.
FailedConnectKeepsOtherPeers ==
    [][ConnectFailed =>
          /\ \A peer_ip \in PeerIps \ {status_bar'[2]} :
                /\ DictHas(websocket_clients', peer_ip) = DictHas(websocket_clients, peer_ip)
                /\ DictHas(websocket_clients, peer_ip) =>
                      DictGet(websocket_clients', peer_ip) = DictGet(websocket_clients, peer_ip)
          /\ UNCHANGED <<conn_open, loop_open>>]_vars

\* C17 (as stated): once the stream of an outbound session has closed, the
\* session is eventually out of websocket_clients and its "Disconnected"
\* message has been shown.
C17_ClosedSessionRemoved ==
    \A c \in 1..MaxConns :
        (DictHas(stream, c) /\ c \notin conn_open)
            ~> (/\ c \in notified
                /\ \A i \in DOMAIN websocket_clients : websocket_clients[i][2] # c)

\* C18 (as stated): a connection attempt that succeeds registers the session
\* and begins its read loop, so that every registered session whose connection
\* is open has a listen_to_peer task reading it on a running event loop; one
\* that fails leaves no entry for the peer and tells of the failure.
C18_ConnectBeginsReadLoop ==
    /\ \A i \in DOMAIN websocket_clients :
          websocket_clients[i][2] \in conn_open
              => [conn |-> websocket_clients[i][2],
                  peer_ip |-> websocket_clients[i][1],
                  task |-> "reading"] \in loop_open
    /\ status_bar[1] = "Failed to connect to"
          => ~DictHas(websocket_clients, status_bar[2])

\* What connect_to_peer does keep: at the end of a successful attempt the
\* session is registered under the peer's address and its listen_to_peer task
\* created; a failed attempt leaves no entry for that peer, creates no task and
\* tells of the failure in the status bar.
ConnectRegistersOrCleans ==
    [][next_conn' = next_conn + 1
         => LET peer_ip == status_bar'[2]
            IN IF status_bar'[1] = "Connected to peer at"
               THEN /\ DictHas(websocket_clients', peer_ip)
                    /\ DictGet(websocket_clients', peer_ip) = next_conn
                    /\ next_conn \in conn_open'
                    /\ [conn |-> next_conn, peer_ip |-> peer_ip, task |-> "reading"]
                          \in loop_open'
               ELSE /\ status_bar'[1] = "Failed to connect to"
                    /\ ~DictHas(websocket_clients', peer_ip)
                    /\ UNCHANGED <<loop_open, conn_open>>]_vars

\* C19 (as stated): on either side, a step that reads an envelope of type text,
\* image, file_completed or file_error adds exactly one event carrying the
\* sender (its address or, in the chat, the name listed for it), the type and
\* the content as they came; a step that reads a file_chunk envelope adds no
\* such event and hands the chunk to ingestion, which stores it or completes
\* the transfer.
C19_DispatchByType ==
    [][(frames_read' = frames_read + 1 /\ last_frame'.frame.ok)
         => LET f == last_frame'
                data == JsonLoads(f.frame)
                ts == IF "timestamp" \in DOMAIN data THEN data["timestamp"] ELSE 0
            IN /\ ("type" \in DOMAIN data /\ "content" \in DOMAIN data
                      /\ data["type"] \in RoutedTypes)
                    => IF f.side = "server"
                       THEN message_received' =
                               Append(message_received,
                                      <<f.ip, data["type"], data["content"]>>)
                       ELSE \E sender \in {f.ip, GetPeerUsername(f.ip)} :
                               chat' = Append(chat, <<sender, <<data["content"]>>,
                                                      data["type"], ts>>)
               /\ ("type" \in DOMAIN data /\ data["type"] = "file_chunk"
                      /\ ChunkKeys \subseteq DOMAIN data)
                    => /\ chat' = chat
                       /\ \/ /\ message_received' = message_received
                             /\ DictHas(active_transfers', data["transfer_id"])
                             /\ DictHas(DictGet(active_transfers',
                                                data["transfer_id"]).chunks,
                                        data["chunk_index"])
                          \/ /\ Len(message_received') = Len(message_received) + 1
                             /\ message_received'[Len(message_received')][2]
                                   \in {"file_completed", "file_error"}
                             /\ ~DictHas(active_transfers', data["transfer_id"])]_vars

\* What the accepting side keeps of it: the coroutine of a closed inbound
\* connection ends and its finally clause has removed the client.  No signal
\* or message tells of the disconnection.
InboundClosedRemoved ==
    \A h \in 1..MaxAccepts :
        (h \in DOMAIN inbound /\ inbound[h].st = "closed")
            ~> (/\ h \in DOMAIN inbound
                /\ inbound[h].st = "ended"
                /\ ~DictHas(clients, inbound[h].ip))

-----------------------------------------------------------------------------
(* Properties of the start of the services, checked under SpecStartup *)

\* The message_received events of A for the text "hi" from B.
TextEvents == {i \in DOMAIN message_received : message_received[i] = <<BIp, "text", "hi">>}
\* A connection B made has closed, on B's side or on A's.
SomeConnectionClosed ==
    \/ \E c \in 1..(next_conn - 1) : c \notin conn_open
    \/ \E h \in DOMAIN inbound : inbound[h].st # "open"

\* C22: B has received A's announcement and emitted peer_found for A, has
\* connected to A's server, which accepted, and has called
\* send_message_to_peer(A, "text", "hi") with success more often than A's server
\* has emitted message_received(B's address, "text", "hi"): then eventually A's
\* server has emitted the event once for each such call, unless a connection
\* has closed.
C22_EndToEndDelivery ==
    (/\ \E i \in DOMAIN peer_found : peer_found[i] = <<AIp, "alice", "aaa">>
     /\ Cardinality(TextEvents) < submitted)
        ~> (Cardinality(TextEvents) >= submitted \/ SomeConnectionClosed)
C22_Witness ==
    /\ peer_found = << <<AIp, "alice", "aaa">> >>
    /\ submitted = MaxSends
    /\ Cardinality(TextEvents) = MaxSends
    /\ ~SomeConnectionClosed
    /\ loop_open = {}

\* An inbound session from peer_ip is open: its handle_client coroutine is in
\* its read loop and self.clients holds the address.
InboundOpen(peer_ip) ==
    /\ DictHas(clients, peer_ip)
    /\ \E h \in DOMAIN inbound : inbound[h].ip = peer_ip /\ inbound[h].st = "open"

\* C23 (as stated): while a session with a peer is open, whichever side opened
\* it, a send to that peer's address succeeds; in particular a
\* send_message_to_peer call of the accepting side, made while the inbound
\* session from the peer is open, returns True and starts the sending thread.
C23_AcceptingSideCanSend ==
    [][(Len(send_results') = Len(send_results) + 1 /\ InboundOpen(last_send'.peer_ip))
          => (last_send'.result /\ submitted' = submitted + 1)]_vars

\* The initiating side can send: a send_message_to_peer call made while the
\* outbound session to the peer is registered and open returns True and starts
\* the sending thread.
InitiatorCanSend ==
    [][(Len(send_results') = Len(send_results) + 1 /\ last_send'.open)
          => (last_send'.result /\ submitted' = submitted + 1)]_vars

\* The connection c is the one websocket_clients records for some peer.
Recorded(c) ==
    \E p \in PeerIps : DictHas(websocket_clients, p) /\ DictGet(websocket_clients, p) = c

\* C24 (as stated): whatever peers are selected, and however often, every open
\* outbound connection is the one websocket_clients records for its peer; the
\* map holding one connection per address, no peer has two open connections.
C24_OneConnectionPerPeer == \A c \in conn_open : Recorded(c)

\* While every connection attempt so far succeeded and went to another peer,
\* the open connections are the recorded ones.
OneConnectionPerPeerSelectedOnce ==
    DictLen(websocket_clients) = next_conn - 1 => \A c \in conn_open : Recorded(c)

\* After stop() both loops of discovery end.
StopEndsDiscovery == ~running ~> (listener = "exited" /\ broadcaster = "exited")
\* An activity that has exited broadcasts nothing and emits no peer_found.
NoEmissionAfterExit ==
    [][/\ (broadcaster = "exited" => broadcasts' = broadcasts)
       /\ (listener = "exited" => peer_found' = peer_found)]_vars
\* An activity that left its loop, on stop() or on an error, has closed its
\* socket.
SocketClosedOnLoopExit ==
    /\ (broadcaster = "exited" => sock.broadcast = "closed")
    /\ (listener = "exited" /\ port_error = <<>> => sock.listen = "closed")

\* C25 (as stated): after stop() the broadcaster and the listener eventually
\* leave their loops; once exited, nothing is broadcast and no peer_found is
\* emitted; and the socket of an activity that has exited is closed, whether it
\* exited on stop(), on an error or on a failed bind.
C25_StopClosesDiscovery ==
    /\ StopEndsDiscovery
    /\ NoEmissionAfterExit
    /\ [](/\ (broadcaster = "exited" => sock.broadcast = "closed")
          /\ (listener = "exited" => sock.listen = "closed"))

\* stop() has returned.
StopReturned == server \in {"stop_returned", "closing", "stopped"}

\* C26 (as stated): after WebSocketServer.stop() has returned no inbound envelope
\* is dispatched (no event emitted, no chunk ingested, no file written), and
\* the server and every read loop eventually end of themselves, none being
\* terminated by force.
C26_StopEndsServer ==
    /\ [][StopReturned => UNCHANGED <<message_received, active_transfers, written>>]_vars
    /\ (StopReturned ~> (/\ server = "stopped"
                         /\ \A h \in DOMAIN inbound : inbound[h].st = "ended"))

\* After stop() the server thread and every read loop end, by themselves or by
\* closeEvent's terminate(); once the server has stopped nothing is dispatched.
StopEndsServerByForce ==
    /\ [][server = "stopped" => UNCHANGED <<message_received, active_transfers, written>>]_vars
    /\ (StopReturned ~> (/\ server = "stopped"
                         /\ \A h \in DOMAIN inbound :
                               inbound[h].st \in {"ended", "terminated"}))

\* C27 (as stated): the presence check of a send and the lookup made for it are
\* not interleaved with a removal of the session: when the thread of a send
\* that reported success looks the peer up, websocket_clients holds a session
\* for it.
C27_SendFindsCheckedSession ==
    [][\A t \in send_threads :
          (send_threads' = send_threads \ {t}) => DictHas(websocket_clients, t.peer_ip)]_vars

\* The check alone is sound: a send reports success exactly when the map held
\* an entry for the peer at the moment of the check.
SuccessIffRegisteredAtCheck ==
    Len(send_results) > 0 => (last_send.result <=> last_send.registered)

\* The step is one iteration of handle_client's read loop.
ServerReadStep == frames_read' = frames_read + 1 /\ last_frame'.side = "server"
\* The frame just read is a file_chunk envelope handle_file_chunk cannot decode.
UndecodableChunk ==
    /\ ServerReadStep
    /\ last_frame'.frame.ok
    /\ "type" \in DOMAIN JsonLoads(last_frame'.frame)
    /\ JsonLoads(last_frame'.frame)["type"] = "file_chunk"
    /\ HandlerRaises(last_frame'.frame)
\* The frame just read triggered an assembly, which failed.
AssemblyFailed ==
    /\ ServerReadStep
    /\ Len(message_received') = Len(message_received) + 1
    /\ message_received'[Len(message_received')][2] = "file_error"
\* The Transfer records other than that of transfer_id are as they were.
OtherTransfersUnchanged(transfer_id) ==
    \A id \in {TransferId, OtherTransferId} \ {transfer_id} :
        /\ DictHas(active_transfers', id) = DictHas(active_transfers, id)
        /\ DictHas(active_transfers, id) =>
              DictGet(active_transfers', id) = DictGet(active_transfers, id)
\* The transfer_id of the frame just read.
FrameTransferId ==
    LET data == JsonLoads(last_frame'.frame)
    IN IF "transfer_id" \in DOMAIN data THEN data["transfer_id"] ELSE ""
\* Every session is as it was: its read loop and its entry in self.clients.
SessionsUnchanged == inbound' = inbound /\ clients' = clients

\* C28 (as stated): a file_chunk envelope that cannot be decoded (no base64, a
\* missing member), or a failure while a Transfer is assembled, leaves every
\* other Transfer record unchanged and every session open and registered, the
\* one that carried the chunk included.
C28_TransferFailureIsolated ==
    [][(UndecodableChunk \/ AssemblyFailed)
          => (OtherTransfersUnchanged(FrameTransferId) /\ SessionsUnchanged)]_vars

\* A failed assembly is isolated: the other Transfer records and all sessions
\* stay as they were.
AssemblyFailureIsolated ==
    [][AssemblyFailed => (OtherTransfersUnchanged(FrameTransferId) /\ SessionsUnchanged)]_vars
\* An undecodable chunk changes no Transfer record at all.
UndecodableChunkKeepsTransfers ==
    [][UndecodableChunk => active_transfers' = active_transfers]_vars

\* C15 (as stated): when the discovery port cannot be bound, the WebSocket
\* server is never started and no session exists.
C15_DiscoveryFailureStopsStartup ==
    Len(port_error) > 0
        => /\ server \notin {"serving"}
           /\ clients = <<>>
           /\ websocket_clients = <<>>

\* C16: a failed bind of the WebSocket port emits the server's port_error
\* signal once and is not fatal: the step that fails and the handler of the
\* signal leave the discovery service, the outbound sessions and the main
\* window as they are, and the window is closed only if the discovery port
\* could not be bound either.
C16_TransportBindFailureNotFatal ==
    /\ [](ws_failed_at.failed
            => /\ server = "failed"
               /\ Len(ws_port_error) = 1
               /\ (app = "closed" => Len(port_error) > 0))
    /\ [][((server = "starting" /\ server' = "failed") \/ (~ws_warned /\ ws_warned'))
            => UNCHANGED <<discVars, sessVars, app, inbound, loop_open>>]_vars
\* After the failure and its warning the listener has emitted a peer_found, the
\* broadcaster has broadcast, an outbound session has been opened and a message
\* sent on it.
C16_Witness ==
    /\ ws_failed_at.failed
    /\ ws_warned
    /\ app = "running"
    /\ Len(peer_found) > ws_failed_at.peers
    /\ broadcasts > ws_failed_at.broadcasts
    /\ next_conn > ws_failed_at.conns
    /\ submitted > ws_failed_at.sends
    /\ DictHas(websocket_clients, "10.0.0.2")
    /\ Len(DictGet(stream, DictGet(websocket_clients, "10.0.0.2"))) > 0

====
